---- MODULE Spec2Model ----
(***************************************************************************)
(* Model of the solar-panel cleaning analyzer (solar_cleaning_analyzer.py) *)
(* and of the analyzer routes of the web application (readings.py).        *)
(*                                                                         *)
(* Numbers are exact rationals [n |-> numerator, d |-> denominator] kept   *)
(* in lowest terms with d > 0.  d = 0 encodes the non-finite IEEE values   *)
(* pandas produces instead of raising: n = 1 is +inf, n = -1 is -inf and   *)
(* n = 0 is NaN.  Timestamps are minutes counted from midnight of day 0.   *)
(* The temperature and humidity columns, the quantities derived from them  *)
(* (cell temperature, temperature-adjusted PR, the temperature analysis of *)
(* the report), the unit price and the recommendation strings of the       *)
(* report are left out.                                                    *)
(***************************************************************************)
EXTENDS Integers, Sequences, FiniteSets, TLC

(***************************************************************************)
(* Bounds of the model.                                                    *)
(***************************************************************************)
\* most rows of a generated single-day upload (SpecMerge)
MaxRows == 2
\* last calendar day of the generated multi-day uploads (SpecDegradation): days 0..MaxDay
MaxDay == 3
\* most cleaning dates in one request to the cleaning-dates route
MaxEvents == 2

(***************************************************************************)
(* Rational arithmetic with IEEE non-finite values.                        *)
(***************************************************************************)
Abs(x) == IF x < 0 THEN -x ELSE x

Sign(x) == IF x > 0 THEN 1 ELSE IF x < 0 THEN -1 ELSE 0

RECURSIVE GCD(_, _)
GCD(a, b) == IF b = 0 THEN a ELSE GCD(b, a % b)

Rat(n, d) ==
    IF d = 0 THEN [n |-> Sign(n), d |-> 0]
    ELSE LET g == GCD(Abs(n), Abs(d))
         IN  [n |-> Sign(d) * (n \div g), d |-> Abs(d) \div g]

Num(k) == [n |-> k, d |-> 1]

Zero == Num(0)

NaN == [n |-> 0, d |-> 0]

IsNaN(a) == a.d = 0 /\ a.n = 0

IsFinite(a) == a.d # 0

Neg(a) == [n |-> -a.n, d |-> a.d]

Add(a, b) ==
    IF a.d # 0 /\ b.d # 0 THEN Rat(a.n * b.d + b.n * a.d, a.d * b.d)
    ELSE IF a.d = 0 /\ b.d = 0 THEN (IF a.n = b.n THEN a ELSE NaN)
    ELSE IF a.d = 0 THEN a ELSE b

Sub(a, b) == Add(a, Neg(b))

Mul(a, b) == Rat(a.n * b.n, a.d * b.d)

\* x / 0 is +inf, -inf or NaN (0 / 0), as in float64 arithmetic
Div(a, b) == Mul(a, Rat(b.d, b.n))

\* a < b; every comparison with NaN is false
Less(a, b) ==
    IF IsNaN(a) \/ IsNaN(b) THEN FALSE
    ELSE IF a.d = 0 THEN a.n < 0 /\ ~(b.d = 0 /\ b.n < 0)
    ELSE IF b.d = 0 THEN b.n > 0
    ELSE a.n * b.d < b.n * a.d

Leq(a, b) == ~IsNaN(a) /\ ~IsNaN(b) /\ ~Less(b, a)

\* Python's max(a, b): b when b > a, else a (so max(0, NaN) is 0)
PyMax(a, b) == IF Less(a, b) THEN b ELSE a

\* mathematical minimum of two finite rationals (used by the properties)
RMin(a, b) == IF Less(b, a) THEN b ELSE a

RECURSIVE SumSeq(_)
SumSeq(s) ==
    IF s = <<>> THEN Zero
    ELSE IF Len(s) = 1 THEN Add(s[1], Zero)
    ELSE Add(SumSeq(SubSeq(s, 1, Len(s) \div 2)),
             SumSeq(SubSeq(s, Len(s) \div 2 + 1, Len(s))))

\* pandas sum(): NaN entries are skipped
SumSkipNa(s) == SumSeq(SelectSeq(s, LAMBDA x : ~IsNaN(x)))

\* pandas mean(): NaN entries are skipped, the mean of nothing is NaN
Mean(s) ==
    LET v == SelectSeq(s, LAMBDA x : ~IsNaN(x))
    IN  IF v = <<>> THEN NaN ELSE Div(SumSeq(v), Num(Len(v)))

\* Python's round(x, digits) for a finite x: nearest multiple of
\* 10^-digits, ties to even; scale is 10^digits
Round(x, scale) ==
    LET y == Mul(x, Num(scale))
        q == y.n \div y.d
        r == y.n - q * y.d
        k == IF 2 * r < y.d THEN q
             ELSE IF 2 * r > y.d THEN q + 1
             ELSE IF q % 2 = 0 THEN q ELSE q + 1
    IN  Rat(k, scale)

\* Python's int(x) for a finite x: truncation toward zero
Trunc(x) == IF x.n >= 0 THEN x.n \div x.d ELSE -((-x.n) \div x.d)

(***************************************************************************)
(* Sequences and sets.                                                     *)
(***************************************************************************)
Range(s) == {s[i] : i \in DOMAIN s}

SetMin(S) == CHOOSE x \in S : \A y \in S : x <= y

SetMax(S) == CHOOSE x \in S : \A y \in S : y <= x

\* the elements of a set of integers in ascending order
SortedSeq(S) ==
    LET rank == [x \in S |-> Cardinality({y \in S : y < x})]
    IN  [k \in 1 .. Cardinality(S) |-> CHOOSE x \in S : rank[x] = k - 1]

Reverse(s) == [i \in DOMAIN s |-> s[Len(s) + 1 - i]]

\* the elements of a set of integers in descending order
ReverseSeq(S) == Reverse(SortedSeq(S))

\* DataFrame.sort_values('timestamp'): rows in ascending timestamp order
SortByTimestamp(rows) == SortSeq(rows, LAMBDA r, q : r.timestamp < q.timestamp)

\* the distinct values of a sequence of integers, in ascending order
DistinctSorted(s) ==
    LET sorted == SortSeq(s, LAMBDA x, y : x < y)
        paired == [i \in DOMAIN sorted |->
                      [value |-> sorted[i], fresh |-> i = 1 \/ sorted[i] # sorted[i - 1]]]
        kept == SelectSeq(paired, LAMBDA p : p.fresh)
    IN  [i \in DOMAIN kept |-> kept[i].value]

\* Python's sorted() on a list of datetimes
RECURSIVE Sorted(_)
Sorted(s) ==
    IF s = <<>> THEN <<>>
    ELSE LET m == SetMin(Range(s))
         IN  SelectSeq(s, LAMBDA x : x = m) \o Sorted(SelectSeq(s, LAMBDA x : x # m))

MapSeq(s, f(_)) == [i \in DOMAIN s |-> f(s[i])]

\* s[a..b] clipped to the sequence, as a Python slice
Slice(s, a, b) ==
    LET lo == IF a < 1 THEN 1 ELSE a
        hi == IF b > Len(s) THEN Len(s) ELSE b
    IN  IF hi < lo THEN <<>> ELSE SubSeq(s, lo, hi)

(***************************************************************************)
(* Time.                                                                   *)
(***************************************************************************)
MinutesPerDay == 24 * 60

BucketMinutes == 30

\* Series.dt.floor('30min')
Floor30(ts) == ts - (ts % BucketMinutes)

HourOf(ts) == (ts % MinutesPerDay) \div 60

MinuteOf(ts) == ts % 60

\* Series.dt.date, then pd.to_datetime: midnight of the timestamp's day
DateOf(ts) == ts - (ts % MinutesPerDay)

\* timedelta(days = k)
Days(k) == k * MinutesPerDay

At(day, hour, minute) == day * MinutesPerDay + hour * 60 + minute

(***************************************************************************)
(* Configuration: SolarSystemConfig and the global SYSTEM_CONFIG.          *)
(***************************************************************************)
DefaultCapacityKwp == 10

DefaultLuxToIrradiance == 165

DefaultMaxIrradiance == 1000

\* SolarSystemConfig(): the dataclass defaults
SolarSystemConfig ==
    [capacity_kwp |-> Num(DefaultCapacityKwp),
     lux_to_irradiance |-> Num(DefaultLuxToIrradiance),
     max_irradiance |-> Num(DefaultMaxIrradiance)]

\* a conversion that leaves the quotient unclamped
NoClip(x, upper) == x

\* Series.clip(upper = u): values above u become u, NaN stays NaN
Clip(x, upper) == IF Less(upper, x) THEN upper ELSE x

(***************************************************************************)
(* Parsing.  An uploaded file is the sequence of its data rows, already    *)
(* typed: [timestamp, lux] for the sensor feed, [timestamp, actual_kwh]    *)
(* for the generation feed.  A sensor file may have a header line and no   *)
(* row; generation files have at least one row.                           *)
(***************************************************************************)
\* parse_lux_csv: irradiance from lux with the global configuration, rows
\* sorted by timestamp
parse_lux_csv(file, config) ==
    SortByTimestamp(
        [i \in DOMAIN file |->
            [timestamp |-> file[i].timestamp,
             lux |-> file[i].lux,
             irradiance |-> Clip(Div(file[i].lux, config.lux_to_irradiance),
                                 config.max_irradiance)]])

\* parse_inverter_csv: rows sorted by timestamp
parse_inverter_csv(file) ==
    SortByTimestamp(
        [i \in DOMAIN file |->
            [timestamp |-> file[i].timestamp, actual_kwh |-> file[i].actual_kwh]])

(***************************************************************************)
(* Data merging.                                                           *)
(***************************************************************************)
\* an Optional value is a sequence of length 0 (None) or 1
None == <<>>

Some(x) == <<x>>

(***************************************************************************)
(* Generation files with their header line.  A file is                     *)
(*   [columns |-> the lower-cased header names, in the order of the file,  *)
(*    rows |-> one function from header name to cell for each data row]    *)
(* A date cell is a day number, a time cell is [hour, minute], the other   *)
(* cells are numbers.                                                      *)
(***************************************************************************)
\* the words parse_inverter_csv looks for that occur in a header name
WordsIn(col) ==
    IF col = "site name" THEN {}
    ELSE IF col = "generation date" THEN {"generation date", "date"}
    ELSE IF col = "time period" THEN {"time period", "time"}
    ELSE IF col = "electricity unit price (qar/kwh)" THEN {"unit price", "price", "kwh"}
    ELSE IF col = "unit price" THEN {"unit price", "price"}
    ELSE IF col = "electricity generation (kwh)" THEN {"electricity generation", "kwh"}
    ELSE {}

\* the branch of the column loop of parse_inverter_csv that a header takes
ColumnRole(col) ==
    IF "generation date" \in WordsIn(col) \/ "date" \in WordsIn(col) THEN "date_col"
    ELSE IF "time period" \in WordsIn(col) \/ "time" \in WordsIn(col) THEN "time_col"
    ELSE IF "electricity generation" \in WordsIn(col) \/ "kwh" \in WordsIn(col)
    THEN "kwh_col"
    ELSE IF "unit price" \in WordsIn(col) \/ "price" \in WordsIn(col) THEN "price_col"
    ELSE "none"

\* date_col, time_col, kwh_col or price_col once the loop over the columns
\* has ended: the last column that took the branch, None when none did
ColumnOf(columns, role) ==
    LET found == {k \in DOMAIN columns : ColumnRole(columns[k]) = role}
    IN  IF found = {} THEN None ELSE Some(columns[SetMax(found)])

\* the electricity_price of a file without a price column
DefaultElectricityPrice == Rat(22, 100)

\* parse_inverter_csv on a file with a date, a time and an energy column:
\* timestamp, actual_kwh and electricity_price of each row, sorted
ParseInverterTable(csv) ==
    LET date_col == ColumnOf(csv.columns, "date_col")[1]
        time_col == ColumnOf(csv.columns, "time_col")[1]
        kwh_col == ColumnOf(csv.columns, "kwh_col")[1]
        price_col == ColumnOf(csv.columns, "price_col")
    IN  SortByTimestamp(
            [i \in DOMAIN csv.rows |->
                [timestamp |-> At(csv.rows[i][date_col], csv.rows[i][time_col].hour,
                                  csv.rows[i][time_col].minute),
                 actual_kwh |-> csv.rows[i][kwh_col],
                 electricity_price |->
                    IF price_col # None THEN csv.rows[i][price_col[1]]
                    ELSE DefaultElectricityPrice]])

(***************************************************************************)
(* Timestamp texts.  A timestamp cell of a sensor file is a text of the    *)
(* year 2025, written with slashes ("a/b/2025 hh:mm") or in ISO order      *)
(* ("2025-mm-dd hh:mm", with ":ss" when seconds is set):                   *)
(*   [style, a, b, hour, minute, seconds]                                  *)
(* where a and b are the first and the second number of the date (month    *)
(* and day in ISO order).  Timestamps count minutes from 1 January 2025.   *)
(***************************************************************************)
DaysInMonth == <<31, 28, 31, 30, 31, 30, 31, 31, 30, 31, 30, 31>>

RECURSIVE DaysBeforeMonth(_)
DaysBeforeMonth(month) ==
    IF month = 1 THEN 0 ELSE DaysBeforeMonth(month - 1) + DaysInMonth[month - 1]

\* the timestamp of a month, a day and a time of day; None when the month
\* or the day does not exist
DateTime(month, day, hour, minute) ==
    IF month \in 1 .. 12 /\ day >= 1 /\ day <= DaysInMonth[month]
    THEN Some(At(DaysBeforeMonth(month) + day - 1, hour, minute))
    ELSE None

\* the formats parse_timestamp tries, in its order
TimestampFormats ==
    <<"%m/%d/%Y %H:%M", "%d/%m/%Y %H:%M", "%Y-%m-%d %H:%M:%S", "%Y-%m-%d %H:%M",
      "%m/%d/%Y %H:%M:%S">>

\* pd.to_datetime(ts, format = fmt): the timestamp, None when it raises
ToDatetime(ts, fmt) ==
    IF fmt = "%m/%d/%Y %H:%M" /\ ts.style = "slash" /\ ~ts.seconds
    THEN DateTime(ts.a, ts.b, ts.hour, ts.minute)
    ELSE IF fmt = "%d/%m/%Y %H:%M" /\ ts.style = "slash" /\ ~ts.seconds
    THEN DateTime(ts.b, ts.a, ts.hour, ts.minute)
    ELSE IF fmt = "%Y-%m-%d %H:%M:%S" /\ ts.style = "iso" /\ ts.seconds
    THEN DateTime(ts.a, ts.b, ts.hour, ts.minute)
    ELSE IF fmt = "%Y-%m-%d %H:%M" /\ ts.style = "iso" /\ ~ts.seconds
    THEN DateTime(ts.a, ts.b, ts.hour, ts.minute)
    ELSE IF fmt = "%m/%d/%Y %H:%M:%S" /\ ts.style = "slash" /\ ts.seconds
    THEN DateTime(ts.a, ts.b, ts.hour, ts.minute)
    ELSE None

\* pd.to_datetime(ts) without a format, for the texts no listed format
\* parses: ISO texts are read in ISO order, and a slash text whose numbers
\* make no date either way raises (None)
ToDatetimeGeneric(ts) ==
    IF ts.style = "iso" THEN DateTime(ts.a, ts.b, ts.hour, ts.minute) ELSE None

\* the formats of the list, by position, that parse the text
FormatsParsing(ts) ==
    {k \in DOMAIN TimestampFormats : ToDatetime(ts, TimestampFormats[k]) # None}

\* parse_lux_csv.parse_timestamp, applied to one cell: the first format
\* that parses this text, else the generic parser; None when that raises
parse_timestamp(ts) ==
    IF FormatsParsing(ts) # {}
    THEN ToDatetime(ts, TimestampFormats[SetMin(FormatsParsing(ts))])
    ELSE ToDatetimeGeneric(ts)

\* df['timestamp'].apply(parse_timestamp) on the rows of a sensor file with
\* timestamp texts: the rows with their timestamps, None when a cell raises
ApplyParseTimestamp(csv) ==
    IF \E i \in DOMAIN csv : parse_timestamp(csv[i].timestamp) = None
    THEN None
    ELSE Some([i \in DOMAIN csv |->
                  [timestamp |-> parse_timestamp(csv[i].timestamp)[1],
                   lux |-> csv[i].lux]])

TimestampsOf(df) == {df[i].timestamp : i \in DOMAIN df}

\* df['timestamp'].min() and .max() of a table with at least one row
MinTimestamp(df) == SetMin(TimestampsOf(df))

MaxTimestamp(df) == SortByTimestamp(df)[Len(df)].timestamp

\* the 30-minute buckets of a table's rows, in ascending order
BucketKeys(df) == DistinctSorted([i \in DOMAIN df |-> Floor30(df[i].timestamp)])

\* lux_df.groupby('interval').agg(mean): one row per 30-minute bucket that
\* holds a sensor sample, in ascending bucket order
lux_agg_of(lux_df) ==
    LET keys == BucketKeys(lux_df)
        row(k) ==
            LET g == SelectSeq(lux_df, LAMBDA r : Floor30(r.timestamp) = k)
            IN  [timestamp |-> k,
                 lux |-> Mean(MapSeq(g, LAMBDA r : r.lux)),
                 irradiance |-> Mean(MapSeq(g, LAMBDA r : r.irradiance))]
    IN  [j \in DOMAIN keys |-> row(keys[j])]

\* inverter_df.groupby('timestamp').agg(sum) after flooring the timestamps
inverter_agg_of(inverter_df) ==
    LET keys == BucketKeys(inverter_df)
        row(k) ==
            LET g == SelectSeq(inverter_df, LAMBDA r : Floor30(r.timestamp) = k)
            IN  [timestamp |-> k,
                 actual_kwh |-> SumSkipNa(MapSeq(g, LAMBDA r : r.actual_kwh))]
    IN  [j \in DOMAIN keys |-> row(keys[j])]

\* a left join: every sensor bucket, with no energy where the generation
\* series has no row for it
LeftJoin(lux_agg, inverter_agg) ==
    LET inv_keys == TimestampsOf(inverter_agg)
        inv == [t \in inv_keys |->
                   inverter_agg[CHOOSE j \in DOMAIN inverter_agg :
                                    inverter_agg[j].timestamp = t]]
    IN  [i \in DOMAIN lux_agg |->
            [timestamp |-> lux_agg[i].timestamp,
             lux |-> lux_agg[i].lux,
             irradiance |-> lux_agg[i].irradiance,
             actual_kwh |-> IF lux_agg[i].timestamp \in inv_keys
                            THEN inv[lux_agg[i].timestamp].actual_kwh
                            ELSE NaN]]

\* pd.merge(lux_agg, inverter_agg, on = 'timestamp', how = 'inner')
InnerJoin(lux_agg, inverter_agg) ==
    LET inv_keys == TimestampsOf(inverter_agg)
        inv == [t \in inv_keys |->
                   inverter_agg[CHOOSE j \in DOMAIN inverter_agg :
                                    inverter_agg[j].timestamp = t]]
        hit == SelectSeq(lux_agg, LAMBDA l : l.timestamp \in inv_keys)
    IN  [i \in DOMAIN hit |->
            [timestamp |-> hit[i].timestamp,
             lux |-> hit[i].lux,
             irradiance |-> hit[i].irradiance,
             actual_kwh |-> inv[hit[i].timestamp].actual_kwh]]

\* a time-of-day mask that stops short of 13:00
InWindowBefore13(ts) == HourOf(ts) >= 10 /\ HourOf(ts) < 13

\* the time-of-day mask: 10:00 up to and including 13:00
InWindow(ts) ==
    HourOf(ts) >= 10 /\ (HourOf(ts) < 13 \/ (HourOf(ts) = 13 /\ MinuteOf(ts) = 0))

\* a generation table whose timestamps are rounded down to their bucket
InverterTableFloored(inverter_df) ==
    [i \in DOMAIN inverter_df |->
        [inverter_df[i] EXCEPT !.timestamp = Floor30(inverter_df[i].timestamp)]]

\* the sensor table of the caller after merge_sensor_and_inverter_data: the
\* 'interval' column is added to lux_df.copy(), the table passed in keeps
\* its columns
LuxTableAfterMerge(lux_df) == lux_df

\* the generation table of the caller after merge_sensor_and_inverter_data:
\* the timestamps are rounded in inverter_df.copy(), the table passed in
\* keeps its own
InverterTableAfterMerge(inverter_df) == inverter_df

\* merge_sensor_and_inverter_data: (merged, debug_info)
merge_sensor_and_inverter_data(lux_df, inverter_df) ==
    LET both == Len(lux_df) > 0 /\ Len(inverter_df) > 0
        lux_min == MinTimestamp(lux_df)
        lux_max == MaxTimestamp(lux_df)
        inv_min == MinTimestamp(inverter_df)
        inv_max == MaxTimestamp(inverter_df)
        overlap_start == IF lux_min > inv_min THEN lux_min ELSE inv_min
        overlap_end == IF lux_max < inv_max THEN lux_max ELSE inv_max
        overlap_found == both /\ overlap_start <= overlap_end
        lux_agg == lux_agg_of(lux_df)
        inverter_agg == inverter_agg_of(inverter_df)
        joined == InnerJoin(lux_agg, inverter_agg)
        merged == SelectSeq(joined, LAMBDA r : InWindow(r.timestamp))
        diagnose == Len(merged) = 0 /\ overlap_found
    IN  [merged |-> merged,
         debug_info |->
            [lux_rows_original |-> Len(lux_df),
             inverter_rows |-> Len(inverter_df),
             lux_date_range |->
                IF Len(lux_df) > 0
                THEN Some([min |-> lux_min, max |-> lux_max])
                ELSE None,
             inverter_date_range |->
                IF Len(inverter_df) > 0
                THEN Some([min |-> inv_min, max |-> inv_max])
                ELSE None,
             overlap_found |-> overlap_found,
             overlap_range |->
                IF overlap_found
                THEN Some([start |-> overlap_start, end |-> overlap_end])
                ELSE None,
             lux_rows_aggregated |-> Len(lux_agg),
             inverter_rows_aggregated |-> Len(inverter_agg),
             merged_rows_before_filter |-> Len(joined),
             merged_rows |-> Len(merged),
             lux_sample_timestamps |->
                IF diagnose
                THEN Some(MapSeq(Slice(lux_agg, 1, 5), LAMBDA r : r.timestamp))
                ELSE None,
             inverter_sample_timestamps |->
                IF diagnose
                THEN Some(MapSeq(Slice(inverter_agg, 1, 5), LAMBDA r : r.timestamp))
                ELSE None]]

(***************************************************************************)
(* Performance calculations.                                               *)
(***************************************************************************)
IntervalHours == Rat(1, 2)

\* calculate_theoretical_kwh
calculate_theoretical_kwh(irradiance, duration_hours, config) ==
    LET irradiance_ratio == Div(irradiance, Num(1000))
        theoretical_kw == Mul(irradiance_ratio, config.capacity_kwp)
        theoretical_kwh == Mul(theoretical_kw, duration_hours)
    IN  PyMax(Zero, theoretical_kwh)

\* a performance ratio without the guard on the denominator
UnguardedPerformanceRatio(actual_kwh, theoretical_kwh) ==
    Div(actual_kwh, theoretical_kwh)

\* calculate_performance_ratio
calculate_performance_ratio(actual_kwh, theoretical_kwh) ==
    IF Leq(theoretical_kwh, Zero) THEN Zero
    ELSE Div(actual_kwh, theoretical_kwh)

\* a loss index that keeps the sign of the relative change
SignedLossIndex(current_pr, baseline_pr) ==
    IF Leq(baseline_pr, Zero) THEN Zero
    ELSE Mul(Div(Sub(baseline_pr, current_pr), baseline_pr), Num(100))

\* calculate_soiling_loss_index
calculate_soiling_loss_index(current_pr, baseline_pr) ==
    IF Leq(baseline_pr, Zero) THEN Zero
    ELSE PyMax(Zero, Mul(Div(Sub(baseline_pr, current_pr), baseline_pr), Num(100)))

(***************************************************************************)
(* SolarCleaningAnalyzer.  An instance is a record of its attributes;      *)
(* methods take the instance and return the instance they leave behind.    *)
(***************************************************************************)
MinValidIrradiance == 50

BaselineDays == 3

DefaultIntervalDays == 14

\* SolarCleaningAnalyzer.__init__
SolarCleaningAnalyzer(config) ==
    [config |-> config,
     merged_data |-> None,
     daily_performance |-> None,
     cleaning_events |-> <<>>,
     installation_date |-> None,
     merge_debug_info |-> None]

\* one row of _calculate_interval_performance
IntervalPerformance(row, config) ==
    LET theoretical_kwh == calculate_theoretical_kwh(row.irradiance, IntervalHours, config)
    IN  [timestamp |-> row.timestamp,
         lux |-> row.lux,
         irradiance |-> row.irradiance,
         actual_kwh |-> row.actual_kwh,
         theoretical_kwh |-> theoretical_kwh,
         performance_ratio |->
            calculate_performance_ratio(row.actual_kwh, theoretical_kwh),
         valid_for_analysis |-> Leq(Num(MinValidIrradiance), row.irradiance)]

\* _calculate_interval_performance: the merged table with its derived columns
calculate_interval_performance(merged_data, config) ==
    [i \in DOMAIN merged_data |-> IntervalPerformance(merged_data[i], config)]

\* the daily PR of one date, recalculated from the sums
DailyPr(actual_kwh, theoretical_kwh) ==
    IF Less(Zero, theoretical_kwh) THEN Div(actual_kwh, theoretical_kwh) ELSE Zero

\* the daily row of date d with the mean of the per-interval ratios as its
\* daily PR
DailyRowMeanOfRatios(d, g, actual_kwh, theoretical_kwh) ==
    [date |-> d,
     lux |-> Mean(MapSeq(g, LAMBDA r : r.lux)),
     irradiance |-> Mean(MapSeq(g, LAMBDA r : r.irradiance)),
     actual_kwh |-> actual_kwh,
     theoretical_kwh |-> theoretical_kwh,
     performance_ratio |-> Mean(MapSeq(g, LAMBDA r : r.performance_ratio)),
     daily_pr |-> Mean(MapSeq(g, LAMBDA r : r.performance_ratio))]

\* the daily row of date d, from the records g of that date and the sums of
\* their actual and theoretical energy
DailyRow(d, g, actual_kwh, theoretical_kwh) ==
    [date |-> d,
     lux |-> Mean(MapSeq(g, LAMBDA r : r.lux)),
     irradiance |-> Mean(MapSeq(g, LAMBDA r : r.irradiance)),
     actual_kwh |-> actual_kwh,
     theoretical_kwh |-> theoretical_kwh,
     performance_ratio |-> Mean(MapSeq(g, LAMBDA r : r.performance_ratio)),
     daily_pr |-> DailyPr(actual_kwh, theoretical_kwh)]

\* the daily row of date d, from the records g of that date
DailyRowOf(d, g) ==
    DailyRow(d, g, SumSkipNa(MapSeq(g, LAMBDA r : r.actual_kwh)),
             SumSkipNa(MapSeq(g, LAMBDA r : r.theoretical_kwh)))

\* the daily table of the valid records df, one row per date in ascending
\* date order
DailyTable(df) ==
    LET dates == DistinctSorted([i \in DOMAIN df |-> DateOf(df[i].timestamp)])
    IN  [j \in DOMAIN dates |->
            DailyRowOf(dates[j], SelectSeq(df, LAMBDA r : DateOf(r.timestamp) = dates[j]))]

\* _calculate_daily_performance: one row per date of the valid records;
\* the empty table when no record is valid
calculate_daily_performance(merged_data) ==
    DailyTable(SelectSeq(merged_data, LAMBDA r : r.valid_for_analysis))

DailyPrOf(rows) == MapSeq(rows, LAMBDA r : r.daily_pr)

\* an empty assessment without the default interval
EmptyDegradationNoInterval ==
    [baseline_pr |-> Zero, current_pr |-> Zero, degradation_percent |-> Zero,
     degradation_rate_per_day |-> Zero, days_since_baseline |-> 0,
     days_to_95_percent |-> None, days_to_90_percent |-> None,
     days_to_85_percent |-> None, days_to_80_percent |-> None,
     recommended_interval_days |-> 0,
     soiling_loss_index |-> Zero]

\* the assessment returned when there is no daily row
EmptyDegradation ==
    [baseline_pr |-> Zero, current_pr |-> Zero, degradation_percent |-> Zero,
     degradation_rate_per_day |-> Zero, days_since_baseline |-> 0,
     days_to_95_percent |-> None, days_to_90_percent |-> None,
     days_to_85_percent |-> None, days_to_80_percent |-> None,
     recommended_interval_days |-> DefaultIntervalDays,
     soiling_loss_index |-> Zero]

\* a baseline anchor taken from the first recorded event
BaselineStartFirstEvent(self) ==
    IF self.cleaning_events # <<>>
    THEN self.cleaning_events[1]
    ELSE SetMin({self.daily_performance[1][i].date :
                    i \in DOMAIN self.daily_performance[1]})

\* the baseline anchor of analyze_degradation
BaselineStart(self) ==
    IF self.cleaning_events # <<>>
    THEN SetMax(Range(self.cleaning_events))
    ELSE SetMin({self.daily_performance[1][i].date :
                    i \in DOMAIN self.daily_performance[1]})

\* the daily rows analyze_degradation averages for the baseline
BaselineData(df, baseline_start) ==
    LET baseline_end == baseline_start + Days(BaselineDays)
    IN  SelectSeq(df, LAMBDA r : r.date >= baseline_start /\ r.date <= baseline_end)

\* the baseline PR of analyze_degradation
BaselinePr(df, baseline_start) ==
    LET baseline_data == BaselineData(df, baseline_start)
    IN  IF Len(baseline_data) > 0 THEN Mean(DailyPrOf(baseline_data))
        ELSE IF Len(df) >= 3 THEN Mean(DailyPrOf(Slice(df, 1, 3)))
        ELSE Mean(DailyPrOf(df))

\* a current PR that averages the last rows however few there are
CurrentPrLastRows(df) ==
    IF Len(df) >= 3 THEN Mean(DailyPrOf(Slice(df, Len(df) - 2, Len(df))))
    ELSE Mean(DailyPrOf(df))

\* the current PR of analyze_degradation
CurrentPr(df) ==
    IF Len(df) >= 3 THEN Mean(DailyPrOf(Slice(df, Len(df) - 2, Len(df))))
    ELSE df[Len(df)].daily_pr

\* a degradation rate taken over any non-zero count of days
DegradationRateAnyDays(degradation_percent, days_since) ==
    IF days_since # 0 THEN Div(degradation_percent, Num(days_since)) ELSE Zero

\* the degradation rate per day of analyze_degradation
DegradationRate(degradation_percent, days_since) ==
    IF days_since > 0 THEN Div(degradation_percent, Num(days_since)) ELSE Zero

\* a prediction rounded to the nearest whole day
DaysToThresholdRounded(target_percent_loss, degradation_rate) ==
    IF Leq(degradation_rate, Zero) THEN None
    ELSE Some(Trunc(Add(Div(Num(target_percent_loss), degradation_rate), Rat(1, 2))))

\* days_to_threshold, local to analyze_degradation
days_to_threshold(target_percent_loss, degradation_rate) ==
    IF Leq(degradation_rate, Zero) THEN None
    ELSE Some(Trunc(Div(Num(target_percent_loss), degradation_rate)))

\* recommended = days_to_90 if days_to_90 else 14
Recommended(days_to_90) ==
    IF days_to_90 # None /\ days_to_90[1] # 0 THEN days_to_90[1]
    ELSE DefaultIntervalDays

\* SolarCleaningAnalyzer.analyze_degradation
analyze_degradation(self) ==
    IF self.daily_performance = None \/ Len(self.daily_performance[1]) = 0
    THEN EmptyDegradation
    ELSE LET df == self.daily_performance[1]
             baseline_start == BaselineStart(self)
             baseline_pr == BaselinePr(df, baseline_start)
             current_pr == CurrentPr(df)
             days_since == (df[Len(df)].date - baseline_start) \div MinutesPerDay
             degradation_percent == calculate_soiling_loss_index(current_pr, baseline_pr)
             degradation_rate == DegradationRate(degradation_percent, days_since)
             days_to_90 == days_to_threshold(10, degradation_rate)
         IN  [baseline_pr |-> baseline_pr,
              current_pr |-> current_pr,
              degradation_percent |-> degradation_percent,
              degradation_rate_per_day |-> degradation_rate,
              days_since_baseline |-> days_since,
              days_to_95_percent |-> days_to_threshold(5, degradation_rate),
              days_to_90_percent |-> days_to_90,
              days_to_85_percent |-> days_to_threshold(15, degradation_rate),
              days_to_80_percent |-> days_to_threshold(20, degradation_rate),
              recommended_interval_days |-> Recommended(days_to_90),
              soiling_loss_index |-> degradation_percent]

\* the recovery percent of one cleaning event
RecoveryPercent(pr_before, pr_after) ==
    IF Less(Zero, pr_before)
    THEN Mul(Div(Sub(pr_after, pr_before), pr_before), Num(100))
    ELSE Zero

\* a recovery table that keeps every cleaning event and reports a recovery
\* of 0 for an event without rows on one side
RecoveryDefaultedToZero(self) ==
    IF self.cleaning_events = <<>> \/ self.daily_performance = None THEN <<>>
    ELSE LET df == self.daily_performance[1]
             before(c) == SelectSeq(df, LAMBDA r : r.date >= c - Days(3) /\ r.date < c)
             after(c) == SelectSeq(df, LAMBDA r : r.date > c /\ r.date <= c + Days(3))
             entry(c) ==
                 IF Len(before(c)) > 0 /\ Len(after(c)) > 0
                 THEN [cleaning_date |-> c,
                       pr_before |-> Mean(DailyPrOf(before(c))),
                       pr_after |-> Mean(DailyPrOf(after(c))),
                       recovery_percent |->
                          RecoveryPercent(Mean(DailyPrOf(before(c))),
                                          Mean(DailyPrOf(after(c))))]
                 ELSE [cleaning_date |-> c, pr_before |-> Zero,
                       pr_after |-> Zero, recovery_percent |-> Zero]
         IN  [i \in DOMAIN self.cleaning_events |-> entry(self.cleaning_events[i])]

\* SolarCleaningAnalyzer.calculate_post_cleaning_recovery
calculate_post_cleaning_recovery(self) ==
    IF self.cleaning_events = <<>> \/ self.daily_performance = None THEN <<>>
    ELSE LET df == self.daily_performance[1]
             before(c) == SelectSeq(df, LAMBDA r : r.date >= c - Days(3) /\ r.date < c)
             after(c) == SelectSeq(df, LAMBDA r : r.date > c /\ r.date <= c + Days(3))
             kept == SelectSeq(self.cleaning_events,
                         LAMBDA c : Len(before(c)) > 0 /\ Len(after(c)) > 0)
             entry(c) ==
                 LET pr_before == Mean(DailyPrOf(before(c)))
                     pr_after == Mean(DailyPrOf(after(c)))
                 IN  [cleaning_date |-> c,
                      pr_before |-> pr_before,
                      pr_after |-> pr_after,
                      recovery_percent |-> RecoveryPercent(pr_before, pr_after)]
         IN  [i \in DOMAIN kept |-> entry(kept[i])]

\* merge_sensor_and_inverter_data raises before it returns: the timestamp
\* column of a sensor table without rows (the file had a header line only)
\* holds no datetimes, and its .dt accessor raises AttributeError
MergeRaises(lux_df) == Len(lux_df) = 0

\* the debug_info load_from_dataframes returns from its except clause when
\* the merge raised: the dictionary it started with and the two keys it adds
LoadException ==
    [error |-> "Can only use .dt accessor with datetimelike values",
     traceback |-> "AttributeError"]

\* a load that reports a merge without rows and names no error
LoadMergedNoError(self, m, intervals, cleaning_dates) ==
    IF Len(m.merged) = 0
    THEN [self |-> [self EXCEPT !.merged_data = Some(m.merged)],
          success |-> FALSE,
          debug_info |-> m.debug_info]
    ELSE [self |->
             [self EXCEPT
                !.merged_data = Some(intervals),
                !.daily_performance = Some(calculate_daily_performance(intervals)),
                !.cleaning_events =
                    IF cleaning_dates # <<>> THEN Sorted(cleaning_dates) ELSE @,
                !.installation_date = Some(intervals[1].timestamp)],
          success |-> TRUE,
          debug_info |-> m.debug_info @@ [success |-> TRUE]]

\* load_from_dataframes once the tables are merged and the interval
\* performance is calculated
LoadMerged(self, m, intervals, cleaning_dates) ==
    IF Len(m.merged) = 0
    THEN [self |-> [self EXCEPT !.merged_data = Some(m.merged)],
          success |-> FALSE,
          debug_info |->
             m.debug_info @@
             [error |-> "No matching timestamps found between lux and inverter data"]]
    ELSE [self |->
             [self EXCEPT
                !.merged_data = Some(intervals),
                !.daily_performance = Some(calculate_daily_performance(intervals)),
                !.cleaning_events =
                    IF cleaning_dates # <<>> THEN Sorted(cleaning_dates) ELSE @,
                !.installation_date = Some(intervals[1].timestamp)],
          success |-> TRUE,
          debug_info |-> m.debug_info @@ [success |-> TRUE]]

\* load_from_dataframes from the merged table on
LoadFrom(self, m, cleaning_dates) ==
    LoadMerged(self, m, calculate_interval_performance(m.merged, self.config),
               cleaning_dates)

\* SolarCleaningAnalyzer.load_from_dataframes: the instance it leaves and
\* the (success, debug_info) it returns
load_from_dataframes(self, lux_df, inverter_df, cleaning_dates) ==
    IF MergeRaises(lux_df)
    THEN [self |-> self, success |-> FALSE, debug_info |-> LoadException]
    ELSE LoadFrom(self, merge_sensor_and_inverter_data(lux_df, inverter_df),
                  cleaning_dates)

\* load_data once the tables are merged and the interval performance is
\* calculated: the instance it leaves and the flag it returns
LoadDataMerged(self, m, intervals, cleaning_dates_file) ==
    IF Len(m.merged) = 0
    THEN [self |-> [self EXCEPT !.merged_data = Some(m.merged),
                                !.merge_debug_info = Some(m.debug_info)],
          success |-> FALSE]
    ELSE [self |->
             [self EXCEPT
                !.merged_data = Some(intervals),
                !.merge_debug_info = Some(m.debug_info),
                !.daily_performance = Some(calculate_daily_performance(intervals)),
                !.cleaning_events =
                    IF cleaning_dates_file # None THEN cleaning_dates_file[1] ELSE @,
                !.installation_date = Some(intervals[1].timestamp)],
          success |-> TRUE]

\* load_data from the merged table on
LoadDataFrom(self, m, cleaning_dates_file) ==
    LoadDataMerged(self, m, calculate_interval_performance(m.merged, self.config),
                   cleaning_dates_file)

\* SolarCleaningAnalyzer.load_data: the files are parsed by parse_lux_csv,
\* which reads the module-level configuration given as global_config, and
\* the interval performance is calculated with self.config; the cleaning
\* dates file is None or the dates parsed from it
load_data(self, lux_csv, inverter_csv, cleaning_dates_file, global_config) ==
    IF MergeRaises(parse_lux_csv(lux_csv, global_config))
    THEN [self |-> self, success |-> FALSE]
    ELSE LoadDataFrom(self,
             merge_sensor_and_inverter_data(parse_lux_csv(lux_csv, global_config),
                                            parse_inverter_csv(inverter_csv)),
             cleaning_dates_file)

ReportDailyLimit == 100

ReportDailyTail == 30

\* a window of the daily table that keeps its first rows
DailyDataHead(df) ==
    IF Len(df) <= ReportDailyLimit THEN df ELSE Slice(df, 1, ReportDailyTail)

\* the 'daily_data' of the report: the daily table, or its tail
DailyData(df) ==
    IF Len(df) <= ReportDailyLimit THEN df
    ELSE Slice(df, Len(df) - ReportDailyTail + 1, Len(df))

NoReport ==
    [success |-> FALSE,
     error |-> "No data loaded or no valid data for analysis"]

\* the 'degradation' section of the report: the assessment, rounded
ReportDegradation(d) ==
    [baseline_pr_percent |-> Round(Mul(d.baseline_pr, Num(100)), 10),
     current_pr_percent |-> Round(Mul(d.current_pr, Num(100)), 10),
     degradation_percent |-> Round(d.degradation_percent, 100),
     degradation_rate_per_day |-> Round(d.degradation_rate_per_day, 1000),
     days_since_baseline |-> d.days_since_baseline,
     days_to_95_percent |-> d.days_to_95_percent,
     days_to_90_percent |-> d.days_to_90_percent,
     days_to_85_percent |-> d.days_to_85_percent,
     days_to_80_percent |-> d.days_to_80_percent,
     recommended_interval_days |-> d.recommended_interval_days,
     soiling_loss_index |-> Round(d.soiling_loss_index, 100)]

\* the overall PR of the report, in percent
OverallPr(total_actual_kwh, total_theoretical_kwh) ==
    IF Less(Zero, total_theoretical_kwh)
    THEN Round(Mul(Div(total_actual_kwh, total_theoretical_kwh), Num(100)), 10)
    ELSE Zero

\* SolarCleaningAnalyzer.generate_report
generate_report(self) ==
    IF self.daily_performance = None \/ Len(self.daily_performance[1]) = 0
    THEN NoReport
    ELSE LET df == self.daily_performance[1]
             total_actual_kwh == SumSkipNa(MapSeq(df, LAMBDA r : r.actual_kwh))
             total_theoretical_kwh == SumSkipNa(MapSeq(df, LAMBDA r : r.theoretical_kwh))
         IN  [success |-> TRUE,
              summary |->
                 [data_range |-> [start |-> df[1].date, end |-> df[Len(df)].date,
                                  days |-> Len(df)],
                  total_generation_kwh |-> Round(total_actual_kwh, 100),
                  total_theoretical_kwh |-> Round(total_theoretical_kwh, 100),
                  avg_daily_kwh |->
                     Round(Mean(MapSeq(df, LAMBDA r : r.actual_kwh)), 100),
                  overall_pr |-> OverallPr(total_actual_kwh, total_theoretical_kwh),
                  system_capacity_kwp |-> self.config.capacity_kwp],
              degradation |-> ReportDegradation(analyze_degradation(self)),
              cleaning_recovery |-> calculate_post_cleaning_recovery(self),
              cleaning_events_count |-> Len(self.cleaning_events),
              daily_data |-> DailyData(df)]

(***************************************************************************)
(* The analyzer routes of the web application.                             *)
(*                                                                         *)
(* SYSTEM_CONFIG   the global configuration object of the analyzer module  *)
(* analyzer_data   the module-level store _analyzer_data; of last_analysis *)
(*                 only whether a report is stored is kept, the routes     *)
(*                 that read it being left out                             *)
(* analyzer        the SolarCleaningAnalyzer the latest request built and  *)
(*                 loaded, None when that request built none               *)
(* response        the response to the latest request                      *)
(***************************************************************************)
\* run_threads holds, for each request of the run route that the threaded
\* server handles step by step, its position in api_analyzer_run and its
\* local variables
VARIABLES SYSTEM_CONFIG, analyzer_data, analyzer, response, run_threads

\* csv_file is the file a parser is reading, None when no parse is under
\* way; parsed_df is the table the parser returned for it
VARIABLES csv_file, parsed_df

\* tcp_started and tcp_start_lock are the module-level _tcp_started and
\* _tcp_start_lock (None, or the caller that holds the lock);
\* tcp_thread_starts counts the tcp-server threads started in the process;
\* ensure_pc is the position of each caller inside ensure_tcp_started
VARIABLES tcp_started, tcp_start_lock, tcp_thread_starts, ensure_pc

\* load_result is what the last load_from_dataframes of the library caller
\* returned, with its arguments, and report_result what the generate_report
\* called since then returned (None: no such call on this instance yet)
VARIABLES load_result, report_result

\* connection is the gateway's side of the TCP connection the server
\* accepted (None before it): the characters it sends, how many of them recv
\* has returned, and whether the receive loop is still running; tcp_buffer
\* is the loop's buffer; weather_data, messages_parsed, invalid_messages and
\* bytes_received are the module-level ring buffer and counters
VARIABLES connection, tcp_buffer, weather_data, messages_parsed,
          invalid_messages, bytes_received

\* pool_used is the number of connections of the pool that are checked
\* out; db_calls is, for each thread, the database operation it runs, its
\* position in it, and whether its local cursor is bound
VARIABLES pool_used, db_calls

analyzer_vars == <<SYSTEM_CONFIG, analyzer_data, analyzer, response, run_threads>>

parser_vars == <<csv_file, parsed_df>>

caller_vars == <<load_result, report_result>>

pool_vars == <<pool_used, db_calls>>

receive_vars ==
    <<connection, tcp_buffer, weather_data, messages_parsed, invalid_messages,
      bytes_received>>

start_vars == <<tcp_started, tcp_start_lock, tcp_thread_starts, ensure_pc>>

\* the callers of ensure_tcp_started: main (or the import of the module)
\* and the threads of two requests to /api/data
Callers == {"main", "api_data_1", "api_data_2"}

\* the variables the analyzer routes and the analyzer class leave alone
outside_analyzer == <<parser_vars, start_vars, caller_vars, receive_vars, pool_vars>>

\* the variables the calls on an analyzer used as a library leave alone
outside_engine == <<parser_vars, start_vars, receive_vars, pool_vars>>

\* the variables the parsers leave alone
outside_parser == <<analyzer_vars, start_vars, caller_vars, receive_vars, pool_vars>>

\* the variables ensure_tcp_started leaves alone
outside_start == <<analyzer_vars, parser_vars, caller_vars, receive_vars, pool_vars>>

\* the variables the TCP receive loop leaves alone
outside_receive == <<analyzer_vars, parser_vars, caller_vars, start_vars, pool_vars>>

\* the variables the database operations leave alone
outside_pool == <<analyzer_vars, parser_vars, caller_vars, start_vars, receive_vars>>

vars ==
    <<analyzer_vars, parser_vars, start_vars, caller_vars, receive_vars, pool_vars>>

\* the requests the server handles at a time
Threads == {1, 2}

\* a request thread that is not inside api_analyzer_run
IdleThread ==
    [pc |-> "idle", capacity |-> Zero, lux_factor |-> Zero,
     analyzer |-> None, response |-> None]

StoredReport == Some([success |-> TRUE])

\* a thread that is in no database operation
IdleCall == [op |-> "none", pc |-> "idle", cursor |-> FALSE]

Init ==
    /\ SYSTEM_CONFIG = SolarSystemConfig
    /\ analyzer_data = [lux_df |-> None, inverter_df |-> None,
                        cleaning_dates |-> <<>>, last_analysis |-> None]
    /\ analyzer = None
    /\ response = [route |-> "none", status |-> 0, body |-> [success |-> FALSE]]
    /\ run_threads = [t \in Threads |-> IdleThread]
    /\ csv_file = None
    /\ parsed_df = None
    /\ load_result = None
    /\ report_result = None
    /\ connection = None
    /\ tcp_buffer = <<>>
    /\ pool_used = 0
    /\ db_calls = [t \in Threads |-> IdleCall]
    /\ weather_data = <<>>
    /\ messages_parsed = 0
    /\ invalid_messages = 0
    /\ bytes_received = 0
    /\ tcp_started = FALSE
    /\ tcp_start_lock = None
    /\ tcp_thread_starts = 0
    /\ ensure_pc = [c \in Callers |-> "idle"]

DateRange(df) ==
    [start |-> MinTimestamp(df), end |-> MaxTimestamp(df)]

\* POST /api/analyzer/upload with a named file and the given type ("" when
\* the form names none); of the response the preview rows and the energy
\* total are left out
\* A sensor file without rows is stored before the response is built, and
\* the date range of its response raises (the minimum of no timestamp is
\* NaN): the route answers 500 and keeps the table.
api_analyzer_upload(file_type, file) ==
    /\ UNCHANGED outside_analyzer
    /\ analyzer' = None
    /\ UNCHANGED <<SYSTEM_CONFIG, run_threads>>
    /\ IF file_type = "lux"
       THEN LET df == parse_lux_csv(file, SYSTEM_CONFIG)
            IN  /\ analyzer_data' = [analyzer_data EXCEPT !.lux_df = Some(df)]
                /\ response' =
                      IF Len(df) = 0
                      THEN [route |-> "upload", status |-> 500,
                            body |-> [success |-> FALSE,
                                      error |-> "'float' object has no attribute 'isoformat'"]]
                      ELSE [route |-> "upload", status |-> 200,
                            body |-> [success |-> TRUE, type |-> "lux", rows |-> Len(df),
                                      date_range |-> DateRange(df)]]
       ELSE IF file_type = "inverter"
       THEN LET df == parse_inverter_csv(file)
            IN  /\ analyzer_data' = [analyzer_data EXCEPT !.inverter_df = Some(df)]
                /\ response' =
                      [route |-> "upload", status |-> 200,
                       body |-> [success |-> TRUE, type |-> "inverter", rows |-> Len(df),
                                 date_range |-> DateRange(df)]]
       ELSE /\ UNCHANGED analyzer_data
            /\ response' =
                  [route |-> "upload", status |-> 400,
                   body |-> [success |-> FALSE,
                             error |-> IF file_type = ""
                                       THEN "File type not specified. Use 'lux' or 'inverter'"
                                       ELSE "Invalid file type. Use 'lux' or 'inverter'"]]

\* POST /api/analyzer/cleaning-dates with the parsed dates of the request
api_analyzer_cleaning_dates(dates) ==
    /\ UNCHANGED outside_analyzer
    /\ analyzer_data' = [analyzer_data EXCEPT !.cleaning_dates = Sorted(dates)]
    /\ response' = [route |-> "cleaning-dates", status |-> 200,
                    body |-> [success |-> TRUE, cleaning_dates |-> Sorted(dates)]]
    /\ analyzer' = None
    /\ UNCHANGED <<SYSTEM_CONFIG, run_threads>>

\* the error message api_analyzer_run builds from a failed load: its fixed
\* text and the values formatted into it
RunErrorMessage(debug_info) ==
    IF "overlap_found" \in DOMAIN debug_info /\ ~debug_info.overlap_found
    THEN [text |-> "No date overlap found!",
          lux_range |-> debug_info.lux_date_range,
          inverter_range |-> debug_info.inverter_date_range]
    ELSE IF "merged_rows" \notin DOMAIN debug_info \/ debug_info.merged_rows = 0
    THEN [text |-> "Data exists but timestamps don't match after rounding to 30-min intervals",
          lux_samples |->
             IF "lux_sample_timestamps" \in DOMAIN debug_info
             THEN debug_info.lux_sample_timestamps ELSE <<>>,
          inverter_samples |->
             IF "inverter_sample_timestamps" \in DOMAIN debug_info
             THEN debug_info.inverter_sample_timestamps ELSE <<>>]
    ELSE [text |-> debug_info.error]

\* the irradiance column api_analyzer_run recomputes in the stored table
RecalculateIrradiance(lux_df, config) ==
    [i \in DOMAIN lux_df |->
        [lux_df[i] EXCEPT
            !.irradiance = Clip(Div(lux_df[i].lux, config.lux_to_irradiance),
                                config.max_irradiance)]]

\* the stored tables once load_from_dataframes has returned: lux_df is the
\* stored sensor table itself, rewritten by the route, and both tables are
\* what the merge left of them
TablesAfterLoad(data, lux_df) ==
    [data EXCEPT !.lux_df = Some(LuxTableAfterMerge(lux_df)),
                 !.inverter_df = Some(InverterTableAfterMerge(data.inverter_df[1]))]

\* the response of api_analyzer_run once the tables are loaded and the
\* report is generated, and what it stores
RunReply(lux_df, loaded, report) ==
    /\ analyzer' = Some(loaded.self)
    /\ IF ~loaded.success
       THEN /\ response' =
                  [route |-> "run", status |-> 400,
                   body |-> [success |-> FALSE,
                             error |-> RunErrorMessage(loaded.debug_info),
                             debug_info |-> loaded.debug_info]]
            /\ analyzer_data' = TablesAfterLoad(analyzer_data, lux_df)
       ELSE IF ~report.success
       THEN /\ response' =
                  [route |-> "run", status |-> 400,
                   body |-> [success |-> FALSE, error |-> report.error]]
            /\ analyzer_data' = TablesAfterLoad(analyzer_data, lux_df)
       ELSE /\ response' = [route |-> "run", status |-> 200, body |-> report]
            /\ analyzer_data' =
                  [TablesAfterLoad(analyzer_data, lux_df) EXCEPT
                      !.last_analysis = StoredReport]

\* api_analyzer_run from the loading of the analyzer on
RunLoaded(lux_df, loaded) == RunReply(lux_df, loaded, generate_report(loaded.self))

\* api_analyzer_run from the recalculated sensor table on
RunAnalysis(config, lux_df) ==
    RunLoaded(lux_df,
              load_from_dataframes(SolarCleaningAnalyzer(config), lux_df,
                  analyzer_data.inverter_df[1], analyzer_data.cleaning_dates))

\* api_analyzer_run once the configuration of the request is built
RunWith(config) ==
    /\ UNCHANGED outside_analyzer
    /\ SYSTEM_CONFIG' = config
    /\ UNCHANGED run_threads
    /\ IF analyzer_data.lux_df = None
       THEN /\ response' =
                  [route |-> "run", status |-> 400,
                   body |-> [success |-> FALSE,
                             error |-> "No lux data uploaded. Please upload lux CSV first."]]
            /\ analyzer' = None
            /\ UNCHANGED analyzer_data
       ELSE IF analyzer_data.inverter_df = None
       THEN /\ response' =
                  [route |-> "run", status |-> 400,
                   body |-> [success |-> FALSE,
                             error |-> "No inverter data uploaded. Please upload inverter CSV first."]]
            /\ analyzer' = None
            /\ UNCHANGED analyzer_data
       ELSE RunAnalysis(config, RecalculateIrradiance(analyzer_data.lux_df[1], config))

\* POST /api/analyzer/run with the capacity and conversion factor of the request
api_analyzer_run(capacity, lux_factor) ==
    RunWith([SYSTEM_CONFIG EXCEPT !.capacity_kwp = capacity,
                                  !.lux_to_irradiance = lux_factor])

\* POST /api/analyzer/clear
api_analyzer_clear ==
    /\ UNCHANGED outside_analyzer
    /\ analyzer_data' = [lux_df |-> None, inverter_df |-> None,
                         cleaning_dates |-> <<>>, last_analysis |-> None]
    /\ response' = [route |-> "clear", status |-> 200,
                    body |-> [success |-> TRUE]]
    /\ analyzer' = None
    /\ UNCHANGED <<SYSTEM_CONFIG, run_threads>>

(***************************************************************************)
(* api_analyzer_run as the threaded server runs it: each request is a      *)
(* thread that takes the statements of the route one step at a time, and   *)
(* the steps of two requests interleave. SYSTEM_CONFIG and the stored      *)
(* tables are the objects every thread reads and writes; the analyzer a    *)
(* thread constructs without a config holds SYSTEM_CONFIG itself, so its   *)
(* self.config is read from SYSTEM_CONFIG at each use.                     *)
(***************************************************************************)
\* thread t returns from the route with the given status and body
RunReturn(t, status, body) ==
    /\ response' = [route |-> "run", status |-> status, body |-> body]
    /\ run_threads' =
          [run_threads EXCEPT
              ![t].pc = "done",
              ![t].response = Some([route |-> "run", status |-> status, body |-> body])]

\* thread t moves on to the given position
RunGoto(t, pc) == run_threads' = [run_threads EXCEPT ![t].pc = pc]

\* the request arrives: data = request.get_json()
RunBegin(t, capacity, lux_factor) ==
    /\ UNCHANGED outside_analyzer
    /\ run_threads[t].pc \in {"idle", "done"}
    /\ run_threads' =
          [run_threads EXCEPT
              ![t] = [IdleThread EXCEPT !.pc = "capacity", !.capacity = capacity,
                                        !.lux_factor = lux_factor]]
    /\ UNCHANGED <<SYSTEM_CONFIG, analyzer_data, analyzer, response>>

\* SYSTEM_CONFIG.capacity_kwp = float(capacity)
RunSetCapacity(t) ==
    /\ UNCHANGED outside_analyzer
    /\ run_threads[t].pc = "capacity"
    /\ SYSTEM_CONFIG' = [SYSTEM_CONFIG EXCEPT !.capacity_kwp = run_threads[t].capacity]
    /\ RunGoto(t, "factor")
    /\ UNCHANGED <<analyzer_data, analyzer, response>>

\* SYSTEM_CONFIG.lux_to_irradiance = float(lux_factor)
RunSetFactor(t) ==
    /\ UNCHANGED outside_analyzer
    /\ run_threads[t].pc = "factor"
    /\ SYSTEM_CONFIG' =
          [SYSTEM_CONFIG EXCEPT !.lux_to_irradiance = run_threads[t].lux_factor]
    /\ RunGoto(t, "check")
    /\ UNCHANGED <<analyzer_data, analyzer, response>>

\* the checks that both tables are uploaded
RunCheckData(t) ==
    /\ UNCHANGED outside_analyzer
    /\ run_threads[t].pc = "check"
    /\ IF analyzer_data.lux_df = None
       THEN RunReturn(t, 400,
                [success |-> FALSE,
                 error |-> "No lux data uploaded. Please upload lux CSV first."])
       ELSE IF analyzer_data.inverter_df = None
       THEN RunReturn(t, 400,
                [success |-> FALSE,
                 error |-> "No inverter data uploaded. Please upload inverter CSV first."])
       ELSE RunGoto(t, "recalculate") /\ UNCHANGED response
    /\ UNCHANGED <<SYSTEM_CONFIG, analyzer_data, analyzer>>

\* lux_df['irradiance'] = ..., written into the stored table
RunRecalculate(t) ==
    /\ UNCHANGED outside_analyzer
    /\ run_threads[t].pc = "recalculate"
    /\ analyzer_data' =
          [analyzer_data EXCEPT
              !.lux_df = Some(RecalculateIrradiance(analyzer_data.lux_df[1], SYSTEM_CONFIG))]
    /\ RunGoto(t, "load")
    /\ UNCHANGED <<SYSTEM_CONFIG, analyzer, response>>

\* what thread t does with the result of load_from_dataframes
RunLoadResult(t, loaded) ==
    IF ~loaded.success
    THEN RunReturn(t, 400,
             [success |-> FALSE,
              error |-> RunErrorMessage(loaded.debug_info),
              debug_info |-> loaded.debug_info])
    ELSE /\ run_threads' =
               [run_threads EXCEPT ![t].pc = "report",
                                   ![t].analyzer = Some(loaded.self)]
         /\ UNCHANGED response

\* analyzer = SolarCleaningAnalyzer(); analyzer.load_from_dataframes(...)
RunLoad(t) ==
    /\ UNCHANGED outside_analyzer
    /\ run_threads[t].pc = "load"
    /\ RunLoadResult(t,
          load_from_dataframes(SolarCleaningAnalyzer(SYSTEM_CONFIG),
              analyzer_data.lux_df[1], analyzer_data.inverter_df[1],
              analyzer_data.cleaning_dates))
    /\ analyzer_data' = TablesAfterLoad(analyzer_data, analyzer_data.lux_df[1])
    /\ UNCHANGED <<SYSTEM_CONFIG, analyzer>>

\* what thread t does with the report
RunReportResult(t, report) ==
    IF ~report.success
    THEN /\ RunReturn(t, 400, [success |-> FALSE, error |-> report.error])
         /\ UNCHANGED analyzer_data
    ELSE /\ RunReturn(t, 200, report)
         /\ analyzer_data' = [analyzer_data EXCEPT !.last_analysis = StoredReport]

\* report = analyzer.generate_report(), on the analyzer whose config is
\* SYSTEM_CONFIG as it is now
RunReport(t) ==
    /\ UNCHANGED outside_analyzer
    /\ run_threads[t].pc = "report"
    /\ RunReportResult(t,
          generate_report([run_threads[t].analyzer[1] EXCEPT !.config = SYSTEM_CONFIG]))
    /\ UNCHANGED <<SYSTEM_CONFIG, analyzer>>

(***************************************************************************)
(* The engine used as a library: a caller constructs an analyzer with a    *)
(* configuration of its own and loads two files into it.                   *)
(***************************************************************************)
\* analyzer = SolarCleaningAnalyzer(config)
EngineConstruct(config) ==
    /\ UNCHANGED outside_engine
    /\ analyzer' = Some(SolarCleaningAnalyzer(config))
    /\ load_result' = None
    /\ report_result' = None
    /\ UNCHANGED <<SYSTEM_CONFIG, analyzer_data, response, run_threads>>

\* analyzer.load_data(lux_csv, inverter_csv, cleaning_dates_file)
EngineLoadData(lux_csv, inverter_csv, cleaning_dates_file) ==
    /\ UNCHANGED outside_analyzer
    /\ analyzer # None
    /\ analyzer' =
          Some(load_data(analyzer[1], lux_csv, inverter_csv, cleaning_dates_file,
                         SYSTEM_CONFIG).self)
    /\ UNCHANGED <<SYSTEM_CONFIG, analyzer_data, response, run_threads>>

\* success, debug_info = analyzer.load_from_dataframes(lux_df, inverter_df,
\* cleaning_dates), given as loaded what the method leaves and returns
EngineLoaded(loaded, lux_df, inverter_df, cleaning_dates) ==
    /\ UNCHANGED outside_engine
    /\ analyzer' = Some(loaded.self)
    /\ load_result' =
          Some([success |-> loaded.success,
                debug_info |-> loaded.debug_info,
                lux_df |-> lux_df,
                inverter_df |-> inverter_df,
                cleaning_dates |-> cleaning_dates])
    /\ report_result' = None
    /\ UNCHANGED <<SYSTEM_CONFIG, analyzer_data, response, run_threads>>

EngineLoadFromDataframes(lux_df, inverter_df, cleaning_dates) ==
    /\ analyzer # None
    /\ EngineLoaded(load_from_dataframes(analyzer[1], lux_df, inverter_df,
                                         cleaning_dates),
                    lux_df, inverter_df, cleaning_dates)

\* report = analyzer.generate_report()
EngineGenerateReport ==
    /\ UNCHANGED outside_engine
    /\ analyzer # None
    /\ report_result' = Some(generate_report(analyzer[1]))
    /\ UNCHANGED <<SYSTEM_CONFIG, analyzer_data, analyzer, response, run_threads,
                   load_result>>

(***************************************************************************)
(* The parsers called on a file of texts.                                  *)
(***************************************************************************)
\* parse_lux_csv(filepath) on a file whose timestamps are texts: the table,
\* or no table when a timestamp cell raised
ParseLuxCsv(csv) ==
    /\ csv_file' = Some([parser |-> "parse_lux_csv", rows |-> csv])
    /\ parsed_df' =
          IF ApplyParseTimestamp(csv) = None
          THEN [raised |-> TRUE, df |-> <<>>]
          ELSE [raised |-> FALSE,
                df |-> parse_lux_csv(ApplyParseTimestamp(csv)[1], SYSTEM_CONFIG)]
    /\ UNCHANGED outside_parser

\* parse_inverter_csv(filepath) on a file with its header line
ParseInverterCsv(csv) ==
    /\ csv_file' = Some([parser |-> "parse_inverter_csv", columns |-> csv.columns,
                         rows |-> csv.rows])
    /\ parsed_df' = [raised |-> FALSE, df |-> ParseInverterTable(csv)]
    /\ UNCHANGED outside_parser

(***************************************************************************)
(* ensure_tcp_started, one statement a step, for each caller.              *)
(***************************************************************************)
\* caller c moves on to the given position
EnsureGoto(c, pc) == ensure_pc' = [ensure_pc EXCEPT ![c] = pc]

\* caller c calls ensure_tcp_started
EnsureCall(c) ==
    /\ ensure_pc[c] \in {"idle", "returned"}
    /\ EnsureGoto(c, "check")
    /\ UNCHANGED <<tcp_started, tcp_start_lock, tcp_thread_starts>>
    /\ UNCHANGED outside_start

\* if _tcp_started: return
EnsureCheck(c) ==
    /\ ensure_pc[c] = "check"
    /\ EnsureGoto(c, IF tcp_started THEN "returned" ELSE "acquire")
    /\ UNCHANGED <<tcp_started, tcp_start_lock, tcp_thread_starts>>
    /\ UNCHANGED outside_start

\* with _tcp_start_lock: the caller waits until the lock is free
EnsureAcquire(c) ==
    /\ ensure_pc[c] = "acquire"
    /\ tcp_start_lock = None
    /\ tcp_start_lock' = Some(c)
    /\ EnsureGoto(c, "recheck")
    /\ UNCHANGED <<tcp_started, tcp_thread_starts>>
    /\ UNCHANGED outside_start

\* a second test that is left out: the caller goes on to start the thread
EnsureRecheckSkipped(c) ==
    /\ ensure_pc[c] = "recheck"
    /\ EnsureGoto(c, "start")
    /\ UNCHANGED <<tcp_started, tcp_start_lock, tcp_thread_starts>>
    /\ UNCHANGED outside_start

\* if _tcp_started: return, inside the with block: the lock is released
EnsureRecheck(c) ==
    /\ ensure_pc[c] = "recheck"
    /\ IF tcp_started
       THEN tcp_start_lock' = None /\ EnsureGoto(c, "returned")
       ELSE UNCHANGED tcp_start_lock /\ EnsureGoto(c, "start")
    /\ UNCHANGED <<tcp_started, tcp_thread_starts>>
    /\ UNCHANGED outside_start

\* _tcp_thread = threading.Thread(...); _tcp_thread.start()
EnsureStartThread(c) ==
    /\ ensure_pc[c] = "start"
    /\ tcp_thread_starts' = tcp_thread_starts + 1
    /\ EnsureGoto(c, "set")
    /\ UNCHANGED <<tcp_started, tcp_start_lock>>
    /\ UNCHANGED outside_start

\* _tcp_started = True
EnsureSetStarted(c) ==
    /\ ensure_pc[c] = "set"
    /\ tcp_started' = TRUE
    /\ EnsureGoto(c, "release")
    /\ UNCHANGED <<tcp_start_lock, tcp_thread_starts>>
    /\ UNCHANGED outside_start

\* the end of the with block: the lock is released and the call returns
EnsureRelease(c) ==
    /\ ensure_pc[c] = "release"
    /\ tcp_start_lock' = None
    /\ EnsureGoto(c, "returned")
    /\ UNCHANGED <<tcp_started, tcp_thread_starts>>
    /\ UNCHANGED outside_start

(***************************************************************************)
(* The TCP receive loop.  A text is a sequence of characters.              *)
(***************************************************************************)
MAX_SAMPLES == 1000

\* data = client.recv(4096)
RecvSize == 4096

Quote == "\""

Backslash == "\\"

Newline == "\n"

Whitespace == {" ", "\r", Newline}

\* the texts of the readings a gateway sends: an object without a string,
\* and an object with a string that holds an escaped quote and a brace
ReadingTexts ==
    {<<"{", "a", "}">>,
     <<"{", Quote, Backslash, Quote, "}", Quote, "}">>}

\* str.strip()
RECURSIVE Strip(_)
Strip(raw) ==
    IF raw = <<>> THEN raw
    ELSE IF Head(raw) \in Whitespace THEN Strip(Tail(raw))
    ELSE IF raw[Len(raw)] \in Whitespace THEN Strip(SubSeq(raw, 1, Len(raw) - 1))
    ELSE raw

\* parse_reading: json.loads succeeds and finds the four keys on the text
\* of a reading and on no other text the stream can be cut into; the
\* reading returned is written as its text
parse_reading(raw) ==
    IF Strip(raw) = <<>> THEN None
    ELSE IF Strip(raw) \in ReadingTexts THEN Some(Strip(raw))
    ELSE None

\* buffer.split("\n"): the parts, the last of them the text after the last
\* newline
RECURSIVE SplitLines(_, _)
SplitLines(buffer, part) ==
    IF buffer = <<>> THEN <<part>>
    ELSE IF Head(buffer) = Newline THEN <<part>> \o SplitLines(Tail(buffer), <<>>)
    ELSE SplitLines(Tail(buffer), Append(part, Head(buffer)))

\* one turn of the loop of _extract_json_objects, on character i; start is
\* 0 where the code has -1
ExtractStep(buffer, i, st) ==
    IF st.start = 0
    THEN IF buffer[i] = "{" THEN [st EXCEPT !.start = i, !.depth = 1] ELSE st
    ELSE IF st.in_string
    THEN IF st.escape THEN [st EXCEPT !.escape = FALSE]
         ELSE IF buffer[i] = Backslash THEN [st EXCEPT !.escape = TRUE]
         ELSE IF buffer[i] = Quote THEN [st EXCEPT !.in_string = FALSE]
         ELSE st
    ELSE IF buffer[i] = Quote THEN [st EXCEPT !.in_string = TRUE]
    ELSE IF buffer[i] = "{" THEN [st EXCEPT !.depth = @ + 1]
    ELSE IF buffer[i] = "}"
    THEN IF st.depth = 1
         THEN [st EXCEPT !.depth = 0, !.start = 0,
                         !.objs = Append(@, SubSeq(buffer, st.start, i))]
         ELSE [st EXCEPT !.depth = @ - 1]
    ELSE st

RECURSIVE ExtractScan(_, _, _)
ExtractScan(buffer, i, st) ==
    IF i > Len(buffer) THEN st
    ELSE ExtractScan(buffer, i + 1, ExtractStep(buffer, i, st))

\* an extraction that keeps no partial object for the next chunk
ExtractedNoRemainder(buffer, st) ==
    [objs |-> st.objs, remaining |-> <<>>]

\* the return of _extract_json_objects from the state its loop ends in
Extracted(buffer, st) ==
    [objs |-> st.objs,
     remaining |->
        IF st.start # 0 /\ st.depth > 0
        THEN SubSeq(buffer, st.start, Len(buffer))
        ELSE <<>>]

\* _extract_json_objects
extract_json_objects(buffer) ==
    Extracted(buffer,
              ExtractScan(buffer, 1,
                  [objs |-> <<>>, start |-> 0, depth |-> 0,
                   in_string |-> FALSE, escape |-> FALSE]))

\* weather_data.append(reading) on a deque of maxlen MAX_SAMPLES
DequeAppend(deque, reading) ==
    IF Len(deque) < MAX_SAMPLES THEN Append(deque, reading)
    ELSE Append(Tail(deque), reading)

\* _ingest_line on the ring buffer and the counters m; the store of the
\* reading in the database is inside a try block and changes none of them
ingest_line(m, line) ==
    IF parse_reading(line) # None
    THEN [m EXCEPT !.messages_parsed = @ + 1,
                   !.weather_data = DequeAppend(@, parse_reading(line)[1])]
    ELSE IF Strip(line) # <<>>
    THEN [m EXCEPT !.invalid_messages = @ + 1]
    ELSE m

\* for p in parts: _ingest_line(p)
RECURSIVE IngestAll(_, _)
IngestAll(m, lines) ==
    IF lines = <<>> THEN m
    ELSE IngestAll(ingest_line(m, Head(lines)), Tail(lines))

\* the ring buffer and the counters as one record
Metrics ==
    [weather_data |-> weather_data,
     messages_parsed |-> messages_parsed,
     invalid_messages |-> invalid_messages]

\* the newline branch of the loop: the lines before the last newline are
\* ingested and the text after it is the buffer
AfterLines(m, buffer) ==
    IF Newline \in Range(buffer)
    THEN [m |-> IngestAll(m, SubSeq(SplitLines(buffer, <<>>), 1,
                                    Len(SplitLines(buffer, <<>>)) - 1)),
          buffer |-> SplitLines(buffer, <<>>)[Len(SplitLines(buffer, <<>>))]]
    ELSE [m |-> m, buffer |-> buffer]

\* the extraction that ends a turn of the loop, on what the newline branch
\* left
AfterObjects(lines) ==
    [m |-> IngestAll(lines.m, extract_json_objects(lines.buffer).objs),
     buffer |-> extract_json_objects(lines.buffer).remaining]

\* the loop's variables take the values of the record next
ReceiveStore(next) ==
    /\ tcp_buffer' = next.buffer
    /\ weather_data' = next.m.weather_data
    /\ messages_parsed' = next.m.messages_parsed
    /\ invalid_messages' = next.m.invalid_messages

\* client, addr = s.accept(); buffer = ""
TcpAccept(stream) ==
    /\ connection = None
    /\ connection' = Some([stream |-> stream, sent |-> 0, open |-> TRUE])
    /\ tcp_buffer' = <<>>
    /\ UNCHANGED <<weather_data, messages_parsed, invalid_messages, bytes_received>>
    /\ UNCHANGED outside_receive

\* one turn of the loop in which recv returns the next n characters
TcpRecv(n) ==
    /\ connection # None
    /\ connection[1].open
    /\ n \in 1 .. RecvSize
    /\ n <= Len(connection[1].stream) - connection[1].sent
    /\ connection' = Some([connection[1] EXCEPT !.sent = @ + n])
    /\ bytes_received' = bytes_received + n
    /\ ReceiveStore(
          AfterObjects(
              AfterLines(Metrics,
                  tcp_buffer \o SubSeq(connection[1].stream,
                                       connection[1].sent + 1,
                                       connection[1].sent + n))))
    /\ UNCHANGED outside_receive

\* the turn in which recv returns no data: the gateway has sent everything
\* and closed; the objects left in the buffer are ingested and the loop ends
TcpRecvClosed ==
    /\ connection # None
    /\ connection[1].open
    /\ connection[1].sent = Len(connection[1].stream)
    /\ connection' = Some([connection[1] EXCEPT !.open = FALSE])
    /\ ReceiveStore(AfterObjects([m |-> Metrics, buffer |-> tcp_buffer]))
    /\ UNCHANGED bytes_received
    /\ UNCHANGED outside_receive

(***************************************************************************)
(* The database operations, one statement a step, for each thread:         *)
(* DatabaseManager.insert_sensor_reading, the all-data branch of           *)
(* export_csv and CleaningTracker.record_cleaning.                         *)
(***************************************************************************)
\* ThreadedConnectionPool(minconn=1, maxconn=10, ...)
maxconn == 10

DbOperations == {"insert_sensor_reading", "export_csv", "record_cleaning"}

\* thread t goes on as the record call
DbGoto(t, call) == db_calls' = [db_calls EXCEPT ![t] = call]

\* thread t enters the operation op
DbBegin(t, op) ==
    /\ db_calls[t].pc = "idle"
    /\ DbGoto(t, [op |-> op, pc |-> "get_connection", cursor |-> FALSE])
    /\ UNCHANGED pool_used
    /\ UNCHANGED outside_pool

\* conn = get_connection(): getconn hands out a connection, or raises when
\* maxconn connections are checked out; the operation then ends without a
\* connection (conn is None in the finally block of insert_sensor_reading)
DbGetConnection(t) ==
    /\ db_calls[t].pc = "get_connection"
    /\ IF pool_used < maxconn
       THEN /\ pool_used' = pool_used + 1
            /\ DbGoto(t, [db_calls[t] EXCEPT !.pc = "cursor"])
       ELSE /\ UNCHANGED pool_used
            /\ DbGoto(t, IdleCall)
    /\ UNCHANGED outside_pool

\* cursor = conn.cursor(), which returns a cursor or raises
DbCursor(t, ok) ==
    /\ db_calls[t].pc = "cursor"
    /\ DbGoto(t, IF ok THEN [db_calls[t] EXCEPT !.pc = "execute", !.cursor = TRUE]
                 ELSE [db_calls[t] EXCEPT !.pc = "except"])
    /\ UNCHANGED pool_used
    /\ UNCHANGED outside_pool

\* cursor.execute(...) and the fetch that follows it, which pass or raise;
\* export_csv has no commit
DbExecute(t, ok) ==
    /\ db_calls[t].pc = "execute"
    /\ DbGoto(t, [db_calls[t] EXCEPT
                    !.pc = IF ~ok THEN "except"
                           ELSE IF db_calls[t].op = "export_csv" THEN "return"
                           ELSE "commit"])
    /\ UNCHANGED pool_used
    /\ UNCHANGED outside_pool

\* conn.commit(), which passes or raises
DbCommit(t, ok) ==
    /\ db_calls[t].pc = "commit"
    /\ DbGoto(t, [db_calls[t] EXCEPT !.pc = IF ok THEN "return" ELSE "except"])
    /\ UNCHANGED pool_used
    /\ UNCHANGED outside_pool

\* the except clause: insert_sensor_reading and record_cleaning roll back
\* and go on to their finally block; in export_csv the exception leaves
\* the branch for the handler's except clause, which answers with an error
DbExcept(t) ==
    /\ db_calls[t].pc = "except"
    /\ DbGoto(t, IF db_calls[t].op = "export_csv" THEN IdleCall
                 ELSE [db_calls[t] EXCEPT !.pc = "return"])
    /\ UNCHANGED pool_used
    /\ UNCHANGED outside_pool

\* the end of the operation: export_csv and record_cleaning call
\* return_connection(conn); the finally block of insert_sensor_reading
\* calls cursor.close() first, which raises when cursor was never bound,
\* and return_connection(conn) is then not reached
DbReturn(t) ==
    /\ db_calls[t].pc = "return"
    /\ pool_used' =
          IF db_calls[t].op = "insert_sensor_reading" /\ ~db_calls[t].cursor
          THEN pool_used
          ELSE pool_used - 1
    /\ DbGoto(t, IdleCall)
    /\ UNCHANGED outside_pool

(***************************************************************************)
(* Inputs.                                                                 *)
(***************************************************************************)
FileTypes == {"lux", "inverter", "csv", ""}

\* a sensor file with one sample of the given light level at each time of
\* the set, latest first
LuxFileAt(times, lux) ==
    LET ts == ReverseSeq(times)
    IN  [i \in DOMAIN ts |-> [timestamp |-> ts[i], lux |-> lux]]

\* a generation file with one row of the given energy at each time of the
\* set, latest first
InverterFileAt(times, kwh) ==
    LET ts == ReverseSeq(times)
    IN  [i \in DOMAIN ts |-> [timestamp |-> ts[i], actual_kwh |-> kwh]]

Buckets == MinutesPerDay \div BucketMinutes

\* one day with a sensor sample ten minutes into every 30-minute bucket
FullDayLux ==
    [i \in 1 .. Buckets |->
        [timestamp |-> (i - 1) * BucketMinutes + 10, lux |-> Num(82500)]]

\* one day with a generation row at the start of every 30-minute bucket
FullDayInverter ==
    [i \in 1 .. Buckets |->
        [timestamp |-> (i - 1) * BucketMinutes, actual_kwh |-> Num(2)]]

\* sample times around the two ends of the analysis window
MergeTimes == {At(0, 9, 30), At(0, 10, 0), At(0, 13, 0), At(0, 13, 15), At(0, 13, 30)}

MergeTimeSets == {S \in SUBSET MergeTimes : Cardinality(S) \in 1 .. MaxRows}

MergeLuxFiles == {LuxFileAt(S, Num(82500)) : S \in MergeTimeSets} \cup {FullDayLux}

MergeInverterFiles == {InverterFileAt(S, Num(2)) : S \in MergeTimeSets} \cup {FullDayInverter}

MergeFiles(file_type) ==
    IF file_type = "lux" THEN MergeLuxFiles
    ELSE IF file_type = "inverter" THEN MergeInverterFiles
    ELSE {<<>>}

\* light levels: dark, dim, and far above what the default factor maps to
\* the irradiance ceiling
LuxLevels == {Num(0), Num(6600), Num(330000)}

\* energy values of a generation row, a negative reading included
KwhLevels == {Num(-1), Num(0), Num(2)}

\* two days of sensor samples: two in the 11:00 bucket and one in the
\* 12:00 bucket of day 0, one in the 11:00 bucket of day 1
LuxFileOf(a, b) ==
    <<[timestamp |-> At(1, 11, 0), lux |-> b],
      [timestamp |-> At(0, 11, 0), lux |-> a],
      [timestamp |-> At(0, 11, 10), lux |-> b],
      [timestamp |-> At(0, 12, 0), lux |-> a]>>

\* two days of generation rows in the same buckets
InverterFileOf(x, y) ==
    <<[timestamp |-> At(1, 11, 0), actual_kwh |-> y],
      [timestamp |-> At(0, 11, 0), actual_kwh |-> x],
      [timestamp |-> At(0, 12, 0), actual_kwh |-> y]>>

PerformanceFiles(file_type) ==
    IF file_type = "lux" THEN {LuxFileOf(a, b) : a, b \in LuxLevels}
    ELSE IF file_type = "inverter" THEN {InverterFileOf(x, y) : x, y \in KwhLevels}
    ELSE {<<>>}

\* (capacity_kwp, lux_conversion_factor) of the run requests
PerformanceRequests ==
    {<<Num(10), Num(165)>>, <<Num(10), Num(100)>>, <<Num(10), Num(0)>>,
     <<Num(0), Num(165)>>}

AllDays == 0 .. MaxDay

\* a sensor sample of 500 W/m2 (at the default factor) at 11:00 of every day
DailyLuxFile == LuxFileAt({At(d, 11, 0) : d \in AllDays}, Num(82500))

\* the energy of day d: a different value every day, falling over the even
\* days and rising over the odd ones
DailyKwh(d) == IF d % 2 = 0 THEN Rat(20 - d, 10) ELSE Rat(10 + d, 10)

\* a generation row at 11:00 of each of the given days, latest first
DailyInverterFile(days) ==
    LET ds == ReverseSeq(days)
    IN  [i \in DOMAIN ds |->
            [timestamp |-> At(ds[i], 11, 0), actual_kwh |-> DailyKwh(ds[i])]]

DegradationFiles(file_type) ==
    IF file_type = "lux" THEN {DailyLuxFile}
    ELSE IF file_type = "inverter"
    THEN {DailyInverterFile(D) : D \in (SUBSET AllDays) \ {{}}}
    ELSE {<<>>}

\* cleaning instants: the morning of day 1, and a day after the last data
EventTimes == {At(1, 0, 0), At(MaxDay + 2, 0, 0)}

RECURSIVE SeqsUpTo(_, _)
SeqsUpTo(S, n) ==
    IF n = 0 THEN {<<>>}
    ELSE SeqsUpTo(S, n - 1) \cup {Append(s, x) : s \in SeqsUpTo(S, n - 1), x \in S}

(***************************************************************************)
(* Spec: the routes over two-day uploads of varied light level and energy, *)
(* run under varied capacity and conversion factor.                        *)
(***************************************************************************)
Upload == \E t \in FileTypes : \E f \in PerformanceFiles(t) : api_analyzer_upload(t, f)

CleaningDates == api_analyzer_cleaning_dates(<<>>)

Run == \E r \in PerformanceRequests : api_analyzer_run(r[1], r[2])

Next == Upload \/ CleaningDates \/ Run \/ api_analyzer_clear

Spec == Init /\ [][Next]_vars

(***************************************************************************)
(* SpecMerge: the routes over single-day uploads whose sample times lie    *)
(* around the ends of the analysis window, and over one fully covered day. *)
(***************************************************************************)
UploadMerge == \E t \in FileTypes : \E f \in MergeFiles(t) : api_analyzer_upload(t, f)

RunMerge == api_analyzer_run(Num(DefaultCapacityKwp), Num(DefaultLuxToIrradiance))

NextMerge == UploadMerge \/ CleaningDates \/ RunMerge \/ api_analyzer_clear

SpecMerge == Init /\ [][NextMerge]_vars

(***************************************************************************)
(* SpecLoad: the routes of SpecMerge, with a sensor file of a header line   *)
(* and no row among the uploads.                                            *)
(***************************************************************************)
HeaderOnlyFile == <<>>

LoadFiles(file_type) ==
    IF file_type = "lux" THEN MergeFiles(file_type) \cup {HeaderOnlyFile}
    ELSE MergeFiles(file_type)

UploadLoad == \E t \in FileTypes : \E f \in LoadFiles(t) : api_analyzer_upload(t, f)

NextLoad == UploadLoad \/ CleaningDates \/ RunMerge \/ api_analyzer_clear

SpecLoad == Init /\ [][NextLoad]_vars

(***************************************************************************)
(* SpecConcurrent: uploads of a two-day pair of files while no run is in   *)
(* flight, and two requests to the run route, each with its own capacity   *)
(* and conversion factor, whose steps interleave.                          *)
(***************************************************************************)
ConcurrentTimes == {At(0, 11, 0), At(1, 11, 0)}

ConcurrentFiles(file_type) ==
    IF file_type = "lux" THEN {LuxFileAt(ConcurrentTimes, Num(82500))}
    ELSE IF file_type = "inverter"
    THEN {InverterFileAt(ConcurrentTimes, Num(2))}
    ELSE {<<>>}

\* (capacity_kwp, lux_conversion_factor) of the concurrent requests
ConcurrentRequests == {<<Num(10), Num(165)>>, <<Num(20), Num(100)>>}

NoRunInFlight == \A t \in Threads : run_threads[t].pc \in {"idle", "done"}

UploadConcurrent ==
    /\ NoRunInFlight
    /\ \E t \in FileTypes : \E f \in ConcurrentFiles(t) : api_analyzer_upload(t, f)

Begin == \E t \in Threads : \E r \in ConcurrentRequests : RunBegin(t, r[1], r[2])

SetCapacity == \E t \in Threads : RunSetCapacity(t)

SetFactor == \E t \in Threads : RunSetFactor(t)

CheckData == \E t \in Threads : RunCheckData(t)

Recalculate == \E t \in Threads : RunRecalculate(t)

Load == \E t \in Threads : RunLoad(t)

Report == \E t \in Threads : RunReport(t)

NextConcurrent ==
    \/ UploadConcurrent
    \/ Begin
    \/ SetCapacity
    \/ SetFactor
    \/ CheckData
    \/ Recalculate
    \/ Load
    \/ Report

SpecConcurrent == Init /\ [][NextConcurrent]_vars

(***************************************************************************)
(* SpecEngine: analyzers constructed with a capacity and a conversion      *)
(* factor of their own, loading files of one sample a bucket with          *)
(* load_data, while SYSTEM_CONFIG keeps its defaults.                      *)
(***************************************************************************)
EngineConfigs ==
    {[SolarSystemConfig EXCEPT !.capacity_kwp = Num(c), !.lux_to_irradiance = Num(f)] :
        c \in {DefaultCapacityKwp, 2 * DefaultCapacityKwp},
        f \in {DefaultLuxToIrradiance, 100}}

EngineTimes == {At(0, 11, 0), At(0, 12, 0), At(1, 11, 0)}

EngineTimeSets == {S \in SUBSET EngineTimes : Cardinality(S) \in 1 .. MaxRows}

EngineLuxFiles ==
    {LuxFileAt(S, lux) : S \in EngineTimeSets, lux \in {Num(6600), Num(82500)}}

EngineInverterFiles == {InverterFileAt(S, Num(2)) : S \in EngineTimeSets}

EngineCleaningFiles == {None, Some(<<At(1, 0, 0)>>)}

Construct == \E config \in EngineConfigs : EngineConstruct(config)

LoadData ==
    \E lux_csv \in EngineLuxFiles : \E inverter_csv \in EngineInverterFiles :
        \E cleaning_dates_file \in EngineCleaningFiles :
            EngineLoadData(lux_csv, inverter_csv, cleaning_dates_file)

NextEngine == Construct \/ LoadData

SpecEngine == Init /\ [][NextEngine]_vars

(***************************************************************************)
(* SpecReload: one analyzer used as a library, loaded again and again with *)
(* load_from_dataframes: tables that share buckets, tables that share      *)
(* none, and a sensor table without rows; with and without cleaning dates. *)
(***************************************************************************)
ReloadTimeSets == SUBSET {At(0, 11, 0), At(1, 11, 0)} \ {{}}

ReloadLuxTables ==
    {parse_lux_csv(LuxFileAt(S, lux), SolarSystemConfig) :
        S \in ReloadTimeSets, lux \in {Num(6600), Num(82500)}} \cup {<<>>}

ReloadInverterTables ==
    {parse_inverter_csv(InverterFileAt(S, Num(2))) : S \in ReloadTimeSets}

ReloadCleaningDates == {<<>>, <<At(1, 0, 0)>>}

ConstructDefault == EngineConstruct(SolarSystemConfig)

LoadFromDataframes ==
    \E lux_df \in ReloadLuxTables : \E inverter_df \in ReloadInverterTables :
        \E cleaning_dates \in ReloadCleaningDates :
            EngineLoadFromDataframes(lux_df, inverter_df, cleaning_dates)

NextReload == ConstructDefault \/ LoadFromDataframes \/ EngineGenerateReport

SpecReload == Init /\ [][NextReload]_vars

(***************************************************************************)
(* SpecParse: parse_lux_csv on sensor files whose timestamp cells are      *)
(* texts in slash or ISO style.                                            *)
(***************************************************************************)
\* the numbers of a slash date: two that can be a month or a day, and one
\* that can be a day only
SlashNumbers == {1, 2, 13}

TimestampTexts ==
    {[style |-> "slash", a |-> a, b |-> b, hour |-> 11, minute |-> 0, seconds |-> FALSE] :
        a, b \in SlashNumbers}
    \cup
    {[style |-> "iso", a |-> 1, b |-> 2, hour |-> 11, minute |-> 0, seconds |-> s] :
        s \in BOOLEAN}

TextLuxFiles ==
    {[i \in DOMAIN ts |-> [timestamp |-> ts[i], lux |-> Num(82500)]] :
        ts \in SeqsUpTo(TimestampTexts, MaxRows) \ {<<>>}}

ParseLux == \E csv \in TextLuxFiles : ParseLuxCsv(csv)

\* the header lines of the generation files: the columns every file has, in
\* the order of the documented export, and a price column under one of two
\* names before or after the energy column, or none
InverterHeaders ==
    {<<"site name", "generation date", "time period", "electricity generation (kwh)">>}
    \cup
    {<<"site name", "generation date", "time period", p, "electricity generation (kwh)">> :
        p \in {"electricity unit price (qar/kwh)", "unit price"}}
    \cup
    {<<"site name", "generation date", "time period", "electricity generation (kwh)", p>> :
        p \in {"electricity unit price (qar/kwh)", "unit price"}}

\* the cells of one data row of a generation file with the given header
InverterCells(columns, day, kwh, price) ==
    [col \in Range(columns) |->
        IF col = "generation date" THEN day
        ELSE IF col = "time period" THEN [hour |-> 11, minute |-> 0]
        ELSE IF col = "electricity generation (kwh)" THEN kwh
        ELSE IF col = "site name" THEN 0
        ELSE price]

PriceLevels == {Rat(30, 100), Rat(50, 100)}

\* generation files of one row a day, from day 0 on
HeaderedInverterFiles ==
    {[columns |-> columns,
      rows |-> [i \in DOMAIN cells |->
                   InverterCells(columns, i - 1, cells[i][1], cells[i][2])]] :
        columns \in InverterHeaders,
        cells \in SeqsUpTo({Num(1), Num(2)} \X PriceLevels, MaxRows) \ {<<>>}}

ParseInverter == \E csv \in HeaderedInverterFiles : ParseInverterCsv(csv)

NextParse == ParseLux \/ ParseInverter

SpecParse == Init /\ [][NextParse]_vars

(***************************************************************************)
(* SpecReport: the routes over uploads of one interval a day for 2 days,   *)
(* for as many days as the report returns in full, and for one day more.   *)
(***************************************************************************)
ReportLengths == {2, ReportDailyLimit, ReportDailyLimit + 1}

ReportTimes(n) == {At(d, 11, 0) : d \in 0 .. n - 1}

ReportFiles(file_type) ==
    IF file_type = "lux"
    THEN {LuxFileAt(ReportTimes(n), Num(82500)) : n \in ReportLengths}
    ELSE IF file_type = "inverter"
    THEN {InverterFileAt(ReportTimes(n), Num(2)) : n \in ReportLengths}
    ELSE {<<>>}

UploadReport == \E t \in FileTypes : \E f \in ReportFiles(t) : api_analyzer_upload(t, f)

NextReport == UploadReport \/ CleaningDates \/ RunMerge \/ api_analyzer_clear

SpecReport == Init /\ [][NextReport]_vars

(***************************************************************************)
(* SpecStart: main and two request threads call ensure_tcp_started, again  *)
(* and again, their statements interleaved.                                *)
(***************************************************************************)
Call == \E c \in Callers : EnsureCall(c)

Check == \E c \in Callers : EnsureCheck(c)

Acquire == \E c \in Callers : EnsureAcquire(c)

Recheck == \E c \in Callers : EnsureRecheck(c)

StartThread == \E c \in Callers : EnsureStartThread(c)

SetStarted == \E c \in Callers : EnsureSetStarted(c)

Release == \E c \in Callers : EnsureRelease(c)

NextStart ==
    \/ Call
    \/ Check
    \/ Acquire
    \/ Recheck
    \/ StartThread
    \/ SetStarted
    \/ Release

SpecStart == Init /\ [][NextStart]_vars

(***************************************************************************)
(* SpecReceive: a gateway connects and sends readings, a newline after     *)
(* each but, in some streams, the last; recv returns the stream in chunks  *)
(* of any lengths.                                                         *)
(***************************************************************************)
MaxReadings == 2

\* the readings joined by newlines
RECURSIVE JoinLines(_)
JoinLines(readings) ==
    IF Len(readings) = 1 THEN readings[1]
    ELSE readings[1] \o <<Newline>> \o JoinLines(Tail(readings))

GatewayStreams ==
    {JoinLines(readings) \o last :
        readings \in SeqsUpTo(ReadingTexts, MaxReadings) \ {<<>>},
        last \in {<<>>, <<Newline>>}}

Accept == \E stream \in GatewayStreams : TcpAccept(stream)

Recv == \E n \in 1 .. RecvSize : TcpRecv(n)

NextReceive == Accept \/ Recv \/ TcpRecvClosed

SpecReceive == Init /\ [][NextReceive]_vars

(***************************************************************************)
(* SpecPool: two threads run database operations, each statement that can  *)
(* raise passing or raising.                                               *)
(***************************************************************************)
BeginCall == \E t \in Threads : \E op \in DbOperations : DbBegin(t, op)

GetConnection == \E t \in Threads : DbGetConnection(t)

Cursor == \E t \in Threads : \E ok \in BOOLEAN : DbCursor(t, ok)

Execute == \E t \in Threads : \E ok \in BOOLEAN : DbExecute(t, ok)

Commit == \E t \in Threads : \E ok \in BOOLEAN : DbCommit(t, ok)

Except == \E t \in Threads : DbExcept(t)

Return == \E t \in Threads : DbReturn(t)

NextPool ==
    \/ BeginCall
    \/ GetConnection
    \/ Cursor
    \/ Execute
    \/ Commit
    \/ Except
    \/ Return

SpecPool == Init /\ [][NextPool]_vars

(***************************************************************************)
(* SpecDegradation: the routes over uploads of several days, one interval  *)
(* a day, with cleaning events, run with the default and a zero capacity.  *)
(***************************************************************************)
UploadDegradation ==
    \E t \in FileTypes : \E f \in DegradationFiles(t) : api_analyzer_upload(t, f)

CleaningDatesDegradation ==
    \E dates \in SeqsUpTo(EventTimes, MaxEvents) : api_analyzer_cleaning_dates(dates)

RunDegradation ==
    \E capacity \in {Num(DefaultCapacityKwp), Num(0)} :
        api_analyzer_run(capacity, Num(DefaultLuxToIrradiance))

NextDegradation ==
    UploadDegradation \/ CleaningDatesDegradation \/ RunDegradation \/ api_analyzer_clear

SpecDegradation == Init /\ [][NextDegradation]_vars

(***************************************************************************)
(* Properties.  They read the tables the store holds, the analyzer the     *)
(* latest run loaded and the response it returned.                         *)
(***************************************************************************)
\* the latest request is a run that passed the data checks and loaded an
\* analyzer
RunLoadedAnalyzer == response.route = "run" /\ analyzer # None

\* the latest request is a run whose load succeeded
RunLoadSucceeded == RunLoadedAnalyzer /\ analyzer[1].daily_performance # None

\* the 30-minute buckets that hold a sensor sample, and a generation row
SensorBuckets == {Floor30(t) : t \in TimestampsOf(analyzer_data.lux_df[1])}

GenerationBuckets == {Floor30(t) : t \in TimestampsOf(analyzer_data.inverter_df[1])}

\* the timestamps of the merged table the analyzer holds
MergedBuckets == TimestampsOf(analyzer[1].merged_data[1])

\* minutes since midnight lie between 10:00 and 13:00, both included
MiddayTime(ts) == ts % MinutesPerDay >= 10 * 60 /\ ts % MinutesPerDay <= 13 * 60

\* every 30-minute bucket of day 0
FullDayBuckets == {(k - 1) * BucketMinutes : k \in 1 .. Buckets}

\* C1: a bucket both series share is kept by the merge exactly when its time
\* of day lies in [10:00, 13:00] (13:00 kept, 09:30 and 13:30 dropped), and a
\* day both series cover in every bucket yields exactly the seven buckets
\* 10:00, 10:30, 11:00, 11:30, 12:00, 12:30, 13:00.
C1_WindowFilter ==
    RunLoadedAnalyzer =>
        /\ \A b \in SensorBuckets \cap GenerationBuckets :
              b \in MergedBuckets <=> MiddayTime(b)
        /\ (SensorBuckets = FullDayBuckets /\ GenerationBuckets = FullDayBuckets) =>
              /\ MergedBuckets = {At(0, 10, 0), At(0, 10, 30), At(0, 11, 0), At(0, 11, 30),
                                  At(0, 12, 0), At(0, 12, 30), At(0, 13, 0)}
              /\ Len(analyzer[1].merged_data[1]) = 7

\* a run over a day both series cover in every bucket, with seven rows merged
C1_Witness ==
    /\ RunLoadedAnalyzer
    /\ SensorBuckets = FullDayBuckets
    /\ GenerationBuckets = FullDayBuckets
    /\ Len(analyzer[1].merged_data[1]) = 7

\* C2: every row of the merged table is a bucket in which both a sensor
\* sample and a generation row fall, no bucket appears twice, and every
\* bucket of the window that both series share appears.
C2_InnerJoin ==
    RunLoadedAnalyzer =>
        LET merged == analyzer[1].merged_data[1]
        IN  /\ \A i \in DOMAIN merged :
                  /\ merged[i].timestamp \in SensorBuckets
                  /\ merged[i].timestamp \in GenerationBuckets
            /\ \A i, j \in DOMAIN merged :
                  merged[i].timestamp = merged[j].timestamp => i = j
            /\ \A b \in SensorBuckets \cap GenerationBuckets :
                  MiddayTime(b) => \E i \in DOMAIN merged : merged[i].timestamp = b

\* a run that merged a row while a bucket of the window held sensor samples
\* only and another bucket generation rows only
C2_Witness ==
    /\ RunLoadedAnalyzer
    /\ \E b \in SensorBuckets \ GenerationBuckets : MiddayTime(b)
    /\ GenerationBuckets \ SensorBuckets # {}
    /\ Len(analyzer[1].merged_data[1]) > 0

\* C3: when the merge yields no row, the error of the response is the
\* no-overlap message exactly when the [min, max] ranges of the two series
\* do not intersect, and the no-matching-bucket message exactly when the
\* ranges intersect and no bucket is shared; the diagnostic carries the
\* range of both series.
C3_DiagnosticNamesCause ==
    (RunLoadedAnalyzer /\ Len(analyzer[1].merged_data[1]) = 0) =>
        LET lux_ts == TimestampsOf(analyzer_data.lux_df[1])
            inv_ts == TimestampsOf(analyzer_data.inverter_df[1])
            intersect == /\ \E a \in lux_ts : \E b \in inv_ts : a <= b
                         /\ \E a \in lux_ts : \E b \in inv_ts : b <= a
            debug_info == response.body.debug_info
        IN  /\ response.body.error.text = "No date overlap found!" <=> ~intersect
            /\ response.body.error.text =
                  "Data exists but timestamps don't match after rounding to 30-min intervals"
                  <=> (intersect /\ SensorBuckets \cap GenerationBuckets = {})
            /\ debug_info.lux_date_range # None
            /\ debug_info.inverter_date_range # None
            /\ \A t \in lux_ts : /\ debug_info.lux_date_range[1].min <= t
                                 /\ t <= debug_info.lux_date_range[1].max
            /\ \A t \in inv_ts : /\ debug_info.inverter_date_range[1].min <= t
                                 /\ t <= debug_info.inverter_date_range[1].max

\* the latest request computed the irradiance column of the stored sensor
\* table: an upload of a sensor file, or a run that passed the data checks
IrradianceComputed ==
    \/ /\ response.route = "upload"
       /\ response.status = 200
       /\ response.body.type = "lux"
    \/ RunLoadedAnalyzer

\* C4: where the irradiance column has just been computed, at parse time or
\* before an analysis run, every row's irradiance is the smaller of
\* lux / lux_to_irradiance and max_irradiance under the configuration in
\* force (in float arithmetic: a positive light level over a zero factor is
\* +inf and gives the ceiling, 0 / 0 is NaN and stays NaN), and no row's
\* irradiance is greater than max_irradiance.
C4_IrradianceClamp ==
    IrradianceComputed =>
        \A i \in DOMAIN analyzer_data.lux_df[1] :
            LET row == analyzer_data.lux_df[1][i]
                quotient == Div(row.lux, SYSTEM_CONFIG.lux_to_irradiance)
            IN  /\ row.irradiance = RMin(quotient, SYSTEM_CONFIG.max_irradiance)
                /\ ~Less(SYSTEM_CONFIG.max_irradiance, row.irradiance)
                /\ IsFinite(quotient) => Leq(row.irradiance, SYSTEM_CONFIG.max_irradiance)

\* a run under a factor other than the default recomputed the column: one
\* row is held at the ceiling its quotient exceeds, another keeps a positive
\* quotient below the ceiling
C4_Witness ==
    /\ RunLoadedAnalyzer
    /\ SYSTEM_CONFIG.lux_to_irradiance = Num(100)
    /\ \E i \in DOMAIN analyzer_data.lux_df[1] :
          LET row == analyzer_data.lux_df[1][i]
          IN  /\ Less(SYSTEM_CONFIG.max_irradiance, Div(row.lux, Num(100)))
              /\ row.irradiance = SYSTEM_CONFIG.max_irradiance
    /\ \E i \in DOMAIN analyzer_data.lux_df[1] :
          LET row == analyzer_data.lux_df[1][i]
          IN  /\ Less(Zero, row.irradiance)
              /\ Less(row.irradiance, SYSTEM_CONFIG.max_irradiance)

\* C5: every interval of the merged table has a theoretical energy of at
\* least zero and a performance ratio of at least zero, whatever the
\* irradiance, the energy of the generation rows and the capacity.
C5_NonNegative ==
    RunLoadSucceeded =>
        \A i \in DOMAIN analyzer[1].merged_data[1] :
            /\ Leq(Zero, analyzer[1].merged_data[1][i].theoretical_kwh)
            /\ Leq(Zero, analyzer[1].merged_data[1][i].performance_ratio)

\* the records of date d in the interval table rows whose irradiance is at
\* least 50 W/m2
ValidOn(rows, d) ==
    SelectSeq(rows, LAMBDA r : DateOf(r.timestamp) = d /\ Leq(Num(50), r.irradiance))

\* C7: the daily table has one row for each date that has a record with
\* irradiance of at least 50 W/m2 and for no other date; the energies of a
\* daily row are the sums, and its light level and irradiance the means,
\* over exactly that date's records with irradiance of at least 50; its
\* daily_pr is the sum of actual energy divided by the sum of theoretical
\* energy (0 when that sum is not positive).
C7_DailyRatioOfSums ==
    RunLoadSucceeded =>
        LET rows == analyzer[1].merged_data[1]
            daily == analyzer[1].daily_performance[1]
            actual(d) == SumSeq(MapSeq(ValidOn(rows, d), LAMBDA r : r.actual_kwh))
            theoretical(d) == SumSeq(MapSeq(ValidOn(rows, d), LAMBDA r : r.theoretical_kwh))
        IN  /\ {daily[i].date : i \in DOMAIN daily} =
                  {DateOf(rows[k].timestamp) :
                      k \in {k \in DOMAIN rows : Leq(Num(50), rows[k].irradiance)}}
            /\ \A i, j \in DOMAIN daily : daily[i].date = daily[j].date => i = j
            /\ \A i \in DOMAIN daily :
                  /\ daily[i].actual_kwh = actual(daily[i].date)
                  /\ daily[i].theoretical_kwh = theoretical(daily[i].date)
                  /\ daily[i].lux =
                        Mean(MapSeq(ValidOn(rows, daily[i].date), LAMBDA r : r.lux))
                  /\ daily[i].irradiance =
                        Mean(MapSeq(ValidOn(rows, daily[i].date), LAMBDA r : r.irradiance))
                  /\ IF Less(Zero, theoretical(daily[i].date))
                     THEN Mul(daily[i].daily_pr, theoretical(daily[i].date)) =
                              actual(daily[i].date)
                     ELSE daily[i].daily_pr = Zero

\* a run whose daily table has a date with two valid records, the ratio of
\* the sums differing from the mean of the two ratios, while the merged
\* table also holds a record below 50 W/m2 on a date with no daily row
C7_Witness ==
    /\ RunLoadSucceeded
    /\ \E i \in DOMAIN analyzer[1].daily_performance[1] :
          LET row == analyzer[1].daily_performance[1][i]
          IN  /\ Len(ValidOn(analyzer[1].merged_data[1], row.date)) = 2
              /\ row.daily_pr # row.performance_ratio
    /\ \E k \in DOMAIN analyzer[1].merged_data[1] :
          LET r == analyzer[1].merged_data[1][k]
          IN  /\ Less(r.irradiance, Num(50))
              /\ \A i \in DOMAIN analyzer[1].daily_performance[1] :
                    analyzer[1].daily_performance[1][i].date # DateOf(r.timestamp)

\* the latest request is a run that returned a report
RunReported == RunLoadSucceeded /\ response.status = 200

\* C6: no quotient of the engine is taken over a zero denominator: every
\* interval PR, daily PR, soiling loss index, recovery percent and overall PR
\* is a finite number, and it is 0 where its denominator (theoretical energy,
\* baseline PR, PR before the cleaning, total theoretical energy) is not
\* positive.
C6_NoZeroDivision ==
    RunLoadSucceeded =>
        LET rows == analyzer[1].merged_data[1]
            daily == analyzer[1].daily_performance[1]
            assessment == analyze_degradation(analyzer[1])
            recoveries == calculate_post_cleaning_recovery(analyzer[1])
        IN  /\ \A i \in DOMAIN rows :
                  /\ IsFinite(rows[i].performance_ratio)
                  /\ Leq(rows[i].theoretical_kwh, Zero) => rows[i].performance_ratio = Zero
            /\ \A i \in DOMAIN daily :
                  /\ IsFinite(daily[i].daily_pr)
                  /\ Leq(daily[i].theoretical_kwh, Zero) => daily[i].daily_pr = Zero
            /\ IsFinite(assessment.soiling_loss_index)
            /\ Leq(assessment.baseline_pr, Zero) => assessment.soiling_loss_index = Zero
            /\ \A i \in DOMAIN recoveries :
                  /\ IsFinite(recoveries[i].recovery_percent)
                  /\ Leq(recoveries[i].pr_before, Zero) =>
                        recoveries[i].recovery_percent = Zero
            /\ response.status = 200 =>
                  /\ IsFinite(response.body.summary.overall_pr)
                  /\ SumSeq(MapSeq(daily, LAMBDA r : r.theoretical_kwh)) = Zero =>
                        response.body.summary.overall_pr = Zero

\* a run with a capacity of zero that returned a report: the theoretical
\* energy of an interval and of a day is zero, the baseline PR is zero, a
\* cleaning event has a PR of zero before it, and the total theoretical
\* energy is zero
C6_Witness ==
    /\ RunReported
    /\ SYSTEM_CONFIG.capacity_kwp = Zero
    /\ \E i \in DOMAIN analyzer[1].merged_data[1] :
          analyzer[1].merged_data[1][i].theoretical_kwh = Zero
    /\ \E i \in DOMAIN analyzer[1].daily_performance[1] :
          analyzer[1].daily_performance[1][i].theoretical_kwh = Zero
    /\ analyze_degradation(analyzer[1]).baseline_pr = Zero
    /\ \E i \in DOMAIN calculate_post_cleaning_recovery(analyzer[1]) :
          calculate_post_cleaning_recovery(analyzer[1])[i].pr_before = Zero
    /\ response.body.summary.total_theoretical_kwh = Zero

\* the latest of the stored cleaning events, or the first date of the daily
\* table when none is stored
ExpectedAnchor ==
    IF analyzer_data.cleaning_dates # <<>>
    THEN CHOOSE e \in Range(analyzer_data.cleaning_dates) :
            \A f \in Range(analyzer_data.cleaning_dates) : f <= e
    ELSE analyzer[1].daily_performance[1][1].date

\* C8: the baseline anchor of the assessment is the chronologically latest
\* cleaning event when at least one is recorded, whatever the order the
\* events were supplied in, and the first date of the daily table when none
\* is recorded; days_since_baseline counts from that anchor.
C8_BaselineAnchor ==
    RunReported =>
        LET daily == analyzer[1].daily_performance[1]
        IN  /\ BaselineStart(analyzer[1]) = ExpectedAnchor
            /\ \A i \in DOMAIN daily :
                  analyzer_data.cleaning_dates = <<>> => ExpectedAnchor <= daily[i].date
            /\ response.body.degradation.days_since_baseline =
                  (daily[Len(daily)].date - ExpectedAnchor) \div MinutesPerDay

\* a report made with two different cleaning events recorded, anchored at
\* the later one
C8_Witness ==
    /\ RunReported
    /\ Len(analyzer_data.cleaning_dates) = 2
    /\ analyzer_data.cleaning_dates[1] # analyzer_data.cleaning_dates[2]
    /\ BaselineStart(analyzer[1]) = analyzer_data.cleaning_dates[2]
    /\ analyzer_data.cleaning_dates[1] < analyzer_data.cleaning_dates[2]

\* C9: the baseline PR of the assessment is the mean of daily_pr over the
\* daily rows of the three days beginning at the anchor (anchor day,
\* anchor + 1, anchor + 2), at most three rows, and the mean over the first
\* three rows of the daily table when none lies there.
C9_BaselineThreeDays ==
    RunReported =>
        LET daily == analyzer[1].daily_performance[1]
            anchor == BaselineStart(analyzer[1])
            near == SelectSeq(daily,
                        LAMBDA r : r.date >= anchor /\ r.date < anchor + Days(3))
        IN  /\ Len(near) <= 3
            /\ analyze_degradation(analyzer[1]).baseline_pr =
                  IF Len(near) > 0 THEN Mean(DailyPrOf(near))
                  ELSE Mean(DailyPrOf(Slice(daily, 1, 3)))

\* C10: the current PR of the assessment is the mean of daily_pr over the
\* three most recent daily rows when the daily table has at least three
\* rows, and the daily_pr of the most recent row when it has fewer.
C10_CurrentPr ==
    RunReported =>
        LET daily == analyzer[1].daily_performance[1]
            n == Len(daily)
            current_pr == analyze_degradation(analyzer[1]).current_pr
        IN  /\ IF n >= 3
               THEN Mul(current_pr, Num(3)) =
                       Add(Add(daily[n - 2].daily_pr, daily[n - 1].daily_pr),
                           daily[n].daily_pr)
               ELSE current_pr = daily[n].daily_pr
            /\ response.body.degradation.current_pr_percent =
                  Round(Mul(current_pr, Num(100)), 10)

\* a report over a daily table of exactly two rows of different daily_pr
C10_Witness ==
    /\ RunReported
    /\ Len(analyzer[1].daily_performance[1]) = 2
    /\ analyzer[1].daily_performance[1][1].daily_pr #
          analyzer[1].daily_performance[1][2].daily_pr

\* C11: the soiling loss index of the assessment, which is also its
\* degradation_percent, is never negative; for a positive baseline PR it is
\* (baseline - current) / baseline * 100 when the current PR is below the
\* baseline and 0 otherwise; it is 0 whenever the current PR is at least the
\* baseline PR; the report carries it rounded to two digits.
C11_LossIndex ==
    RunReported =>
        LET d == analyze_degradation(analyzer[1])
        IN  /\ d.degradation_percent = d.soiling_loss_index
            /\ Leq(Zero, d.soiling_loss_index)
            /\ Less(Zero, d.baseline_pr) =>
                  d.soiling_loss_index =
                     IF Less(d.current_pr, d.baseline_pr)
                     THEN Mul(Div(Sub(d.baseline_pr, d.current_pr), d.baseline_pr), Num(100))
                     ELSE Zero
            /\ Leq(d.baseline_pr, d.current_pr) => d.soiling_loss_index = Zero
            /\ response.body.degradation.soiling_loss_index =
                  Round(d.soiling_loss_index, 100)
            /\ response.body.degradation.degradation_percent =
                  Round(d.soiling_loss_index, 100)

\* a report whose current PR lies above a positive baseline PR, with a loss
\* index of zero
C11_Witness ==
    /\ RunReported
    /\ Less(Zero, analyze_degradation(analyzer[1]).baseline_pr)
    /\ Less(analyze_degradation(analyzer[1]).baseline_pr,
            analyze_degradation(analyzer[1]).current_pr)
    /\ analyze_degradation(analyzer[1]).soiling_loss_index = Zero

\* the whole days from the expected anchor to the last date of the daily
\* table
ElapsedDays ==
    (analyzer[1].daily_performance[1][Len(analyzer[1].daily_performance[1])].date
        - ExpectedAnchor) \div MinutesPerDay

\* C12: the degradation rate per day of the assessment is the loss index
\* divided by the days elapsed from the anchor to the last daily date when
\* those days are positive and 0 otherwise (zero days, or a cleaning event
\* dated after the last day of data); it is never negative; the report
\* carries it rounded to three digits.
C12_DegradationRate ==
    RunReported =>
        LET d == analyze_degradation(analyzer[1])
        IN  /\ d.days_since_baseline = ElapsedDays
            /\ ElapsedDays > 0 =>
                  Mul(d.degradation_rate_per_day, Num(ElapsedDays)) = d.soiling_loss_index
            /\ ElapsedDays <= 0 => d.degradation_rate_per_day = Zero
            /\ Leq(Zero, d.degradation_rate_per_day)
            /\ response.body.degradation.degradation_rate_per_day =
                  Round(d.degradation_rate_per_day, 1000)

\* a report anchored at a cleaning event after the last day of data, with a
\* positive loss index and a rate of zero
C12_Witness ==
    /\ RunReported
    /\ ElapsedDays < 0
    /\ Less(Zero, analyze_degradation(analyzer[1]).soiling_loss_index)
    /\ analyze_degradation(analyzer[1]).degradation_rate_per_day = Zero

\* the four predictions of the report, by percent of loss
ReportedDaysTo(x) ==
    IF x = 5 THEN response.body.degradation.days_to_95_percent
    ELSE IF x = 10 THEN response.body.degradation.days_to_90_percent
    ELSE IF x = 15 THEN response.body.degradation.days_to_85_percent
    ELSE response.body.degradation.days_to_80_percent

\* the prediction for 10% loss from a baseline PR of 0.85, a current PR of
\* 0.76 and 20 elapsed days
ScenarioDaysTo90 ==
    days_to_threshold(10,
        DegradationRate(calculate_soiling_loss_index(Rat(76, 100), Rat(85, 100)), 20))

\* C13 as stated: for X in {5, 10, 15, 20} the prediction equals
\* X / degradation_rate_per_day when the rate is positive, and all four
\* predictions are None when it is not.
C13_DaysEqualQuotient ==
    RunReported =>
        LET rate == analyze_degradation(analyzer[1]).degradation_rate_per_day
        IN  \A x \in {5, 10, 15, 20} :
               IF Less(Zero, rate)
               THEN /\ ReportedDaysTo(x) # None
                    /\ Num(ReportedDaysTo(x)[1]) = Div(Num(x), rate)
               ELSE ReportedDaysTo(x) = None

\* C13: for X in {5, 10, 15, 20} the prediction is the whole number of days
\* in X / degradation_rate_per_day (the quotient truncated) when the rate is
\* positive, and all four predictions are None when it is not; a baseline PR
\* of 0.85, a current PR of 0.76 and 20 elapsed days give 18 days to 10%
\* loss.
C13_DaysTruncatedQuotient ==
    /\ ScenarioDaysTo90 = Some(18)
    /\ RunReported =>
          LET rate == analyze_degradation(analyzer[1]).degradation_rate_per_day
          IN  \A x \in {5, 10, 15, 20} :
                 IF Less(Zero, rate)
                 THEN /\ ReportedDaysTo(x) # None
                      /\ ReportedDaysTo(x)[1] >= 0
                      /\ Leq(Num(ReportedDaysTo(x)[1]), Div(Num(x), rate))
                      /\ Less(Div(Num(x), rate), Num(ReportedDaysTo(x)[1] + 1))
                 ELSE ReportedDaysTo(x) = None

\* a report with a positive rate whose quotient for 10% loss is no whole
\* number of days
C13_Witness ==
    /\ RunReported
    /\ Less(Zero, analyze_degradation(analyzer[1]).degradation_rate_per_day)
    /\ ReportedDaysTo(10) # None
    /\ Less(Num(ReportedDaysTo(10)[1]),
            Div(Num(10), analyze_degradation(analyzer[1]).degradation_rate_per_day))

\* C14: the recommended interval of the report is the predicted day count
\* to 10% loss whenever that prediction is not None, for every positive
\* rate, and is the default of 14 days only when the prediction is None.
C14_RecommendedInterval ==
    RunReported =>
        /\ response.body.degradation.days_to_90_percent # None =>
              response.body.degradation.recommended_interval_days =
                 response.body.degradation.days_to_90_percent[1]
        /\ response.body.degradation.days_to_90_percent = None =>
              response.body.degradation.recommended_interval_days = 14

\* C15: on an analyzer that has loaded no data, and on one whose daily table
\* has no row, analyze_degradation returns an assessment with every field
\* set: baseline PR, current PR, degradation percent, rate, days since
\* baseline and soiling loss index 0, the four predictions None and a
\* recommended interval of 14 days.
C15_EmptyAssessment ==
    LET empty == [baseline_pr |-> Num(0), current_pr |-> Num(0),
                  degradation_percent |-> Num(0), degradation_rate_per_day |-> Num(0),
                  days_since_baseline |-> 0,
                  days_to_95_percent |-> <<>>, days_to_90_percent |-> <<>>,
                  days_to_85_percent |-> <<>>, days_to_80_percent |-> <<>>,
                  recommended_interval_days |-> 14,
                  soiling_loss_index |-> Num(0)]
    IN  /\ analyze_degradation(SolarCleaningAnalyzer(SYSTEM_CONFIG)) = empty
        /\ (/\ RunLoadedAnalyzer
            /\ \/ analyzer[1].daily_performance = None
               \/ Len(analyzer[1].daily_performance[1]) = 0) =>
              analyze_degradation(analyzer[1]) = empty

\* a run that merged rows none of which is valid for analysis: the daily
\* table is set and has no row
C15_Witness ==
    /\ RunLoadedAnalyzer
    /\ analyzer[1].daily_performance # None
    /\ Len(analyzer[1].daily_performance[1]) = 0
    /\ Len(analyzer[1].merged_data[1]) > 0
    /\ response.status = 400

\* the daily PR values of the analyzed days from lo to hi, each bound
\* included or not
DailyPrBetween(lo, lo_closed, hi, hi_closed) ==
    LET df == analyzer[1].daily_performance[1]
        rows == SelectSeq(df, LAMBDA r :
                    /\ IF lo_closed THEN r.date >= lo ELSE r.date > lo
                    /\ IF hi_closed THEN r.date <= hi ELSE r.date < hi)
    IN  [i \in DOMAIN rows |-> rows[i].daily_pr]

PrBefore(c) == DailyPrBetween(c - 3 * MinutesPerDay, TRUE, c, FALSE)

PrAfter(c) == DailyPrBetween(c, FALSE, c + 3 * MinutesPerDay, TRUE)

\* C16: the recovery entries of a report are, in order, the cleaning events
\* that have at least one daily row in the 3 days before the event and at
\* least one in the 3 days after it; an event lacking rows on either side
\* has no entry. Each entry carries the means of the daily PR on both sides,
\* and for a positive mean before the event its recovery percent is
\* (PR_after - PR_before) / PR_before * 100.
C16_RecoveryEntries ==
    RunReported =>
        LET recoveries == response.body.cleaning_recovery
            events == analyzer[1].cleaning_events
        IN  /\ [i \in DOMAIN recoveries |-> recoveries[i].cleaning_date] =
                  SelectSeq(events, LAMBDA c :
                      Len(PrBefore(c)) > 0 /\ Len(PrAfter(c)) > 0)
            /\ \A i \in DOMAIN recoveries :
                  LET c == recoveries[i].cleaning_date
                  IN  /\ recoveries[i].pr_before = Mean(PrBefore(c))
                      /\ recoveries[i].pr_after = Mean(PrAfter(c))
                      /\ Less(Zero, recoveries[i].pr_before) =>
                            recoveries[i].recovery_percent =
                               Mul(Div(Sub(recoveries[i].pr_after,
                                           recoveries[i].pr_before),
                                       recoveries[i].pr_before), Num(100))

\* a report over two cleaning events: one with rows on both sides and a
\* positive PR before it, entered with a recovery other than 0, and one
\* without a row after it, not entered
C16_Witness ==
    /\ RunReported
    /\ Len(analyzer[1].cleaning_events) = 2
    /\ Len(response.body.cleaning_recovery) = 1
    /\ Less(Zero, response.body.cleaning_recovery[1].pr_before)
    /\ response.body.cleaning_recovery[1].recovery_percent # Zero
    /\ \E i \in DOMAIN analyzer[1].cleaning_events :
          /\ Len(PrBefore(analyzer[1].cleaning_events[i])) > 0
          /\ Len(PrAfter(analyzer[1].cleaning_events[i])) = 0

\* both tables are uploaded
TablesStored == analyzer_data.lux_df # None /\ analyzer_data.inverter_df # None

\* what load_from_dataframes returns for the stored tables
LoadOfStored ==
    load_from_dataframes(SolarCleaningAnalyzer(SYSTEM_CONFIG),
                         analyzer_data.lux_df[1], analyzer_data.inverter_df[1],
                         analyzer_data.cleaning_dates)

\* the keys merge_sensor_and_inverter_data always sets in its diagnostics
MergeDiagnostics ==
    {"lux_rows_original", "inverter_rows", "lux_date_range",
     "inverter_date_range", "merged_rows", "overlap_found"}

\* the latest request is a run whose load failed
RunLoadFailed ==
    /\ response.route = "run"
    /\ response.status = 400
    /\ "debug_info" \in DOMAIN response.body

\* C17 as stated: whenever load_from_dataframes fails, for a merge without
\* rows and for an exception raised inside merging alike, the info it
\* returns carries an 'error' together with the merge diagnostics.
C17_FailureCarriesDiagnostics ==
    TablesStored =>
        (~LoadOfStored.success =>
            /\ "error" \in DOMAIN LoadOfStored.debug_info
            /\ MergeDiagnostics \subseteq DOMAIN LoadOfStored.debug_info)

\* C17, amended: loading never raises. load_from_dataframes returns
\* (True, info) without an error, or (False, info) with an 'error' message;
\* the merge diagnostics accompany the error when the merge returned no
\* row, while an exception raised inside merging leaves only the error and
\* its traceback. The run route answers a failed load with status 400 and
\* that info, never with 500, and generate_report on an analyzer without
\* daily data returns success = false and an error message.
C17_LoadOutcomeReturned ==
    /\ TablesStored =>
          LET loaded == LoadOfStored
              info == loaded.debug_info
          IN  /\ loaded.success =>
                    /\ info.success = TRUE
                    /\ "error" \notin DOMAIN info
                    /\ MergeDiagnostics \subseteq DOMAIN info
              /\ ~loaded.success =>
                    /\ "error" \in DOMAIN info
                    /\ IF Len(analyzer_data.lux_df[1]) = 0
                       THEN DOMAIN info = {"error", "traceback"}
                       ELSE /\ MergeDiagnostics \subseteq DOMAIN info
                            /\ info.merged_rows = 0
                    /\ generate_report(loaded.self) =
                          [success |-> FALSE,
                           error |-> "No data loaded or no valid data for analysis"]
    /\ response.route = "run" => response.status \in {200, 400}
    /\ RunLoadFailed =>
          /\ response.body.debug_info = LoadOfStored.debug_info
          /\ response.body.success = FALSE
          /\ analyzer[1].daily_performance = None

\* a run over a sensor table without rows: the merge raised, and the route
\* answered 400 with the error and the traceback
C17_Witness ==
    /\ RunLoadFailed
    /\ Len(analyzer_data.lux_df[1]) = 0
    /\ DOMAIN response.body.debug_info = {"error", "traceback"}
    /\ analyzer[1].merged_data = None

\* the configuration the latest run was requested with is not positive in
\* its capacity or in its calibration factor
NonPositiveConfiguration ==
    \/ Leq(SYSTEM_CONFIG.capacity_kwp, Zero)
    \/ Leq(SYSTEM_CONFIG.lux_to_irradiance, Zero)

\* C18: a run requested with a non-positive capacity or a non-positive
\* calibration factor is answered with an error before any table is merged
\* (no analyzer is loaded), and never with a report of success = true.
C18_NonPositiveRejected ==
    (response.route = "run" /\ NonPositiveConfiguration) =>
        /\ response.status # 200
        /\ response.body.success = FALSE
        /\ analyzer = None

\* the configuration thread t asked for
RequestedConfig(t) ==
    [SolarSystemConfig EXCEPT !.capacity_kwp = run_threads[t].capacity,
                              !.lux_to_irradiance = run_threads[t].lux_factor]

\* the report of the request of thread t had it run alone over the stored
\* tables
ReportAlone(t) ==
    generate_report(
        load_from_dataframes(
            SolarCleaningAnalyzer(RequestedConfig(t)),
            RecalculateIrradiance(analyzer_data.lux_df[1], RequestedConfig(t)),
            analyzer_data.inverter_df[1], analyzer_data.cleaning_dates).self)

\* C19: whatever the interleaving of two runs, the report a run returns
\* carries the capacity that run was requested with, and the theoretical
\* output and the PR of the run alone under its own capacity and factor.
C19_RunsDoNotInterfere ==
    \A t \in Threads :
        (/\ run_threads[t].pc = "done"
         /\ run_threads[t].response[1].status = 200) =>
            LET summary == run_threads[t].response[1].body.summary
            IN  /\ summary.system_capacity_kwp = run_threads[t].capacity
                /\ summary.total_theoretical_kwh = ReportAlone(t).summary.total_theoretical_kwh
                /\ summary.overall_pr = ReportAlone(t).summary.overall_pr

\* C20: in every table of intervals an analyzer has loaded, the irradiance
\* of an interval of one sample, from which its theoretical output is
\* computed, is the light level divided by the calibration factor of the
\* analyzer's own configuration (up to the ceiling); no value computed
\* under another calibration is used.
C20_IrradianceOfOwnCalibration ==
    (analyzer # None /\ analyzer[1].merged_data # None) =>
        \A i \in DOMAIN analyzer[1].merged_data[1] :
            LET row == analyzer[1].merged_data[1][i]
                config == analyzer[1].config
                own == IF Less(config.max_irradiance,
                               Div(row.lux, config.lux_to_irradiance))
                       THEN config.max_irradiance
                       ELSE Div(row.lux, config.lux_to_irradiance)
            IN  /\ row.irradiance = own
                /\ row.theoretical_kwh =
                      calculate_theoretical_kwh(own, IntervalHours, config)

FormatsParsingAll ==
    {k \in DOMAIN TimestampFormats :
        \A i \in DOMAIN csv_file[1].rows :
            ToDatetime(csv_file[1].rows[i].timestamp, TimestampFormats[k]) # None}

\* C22: when a listed format parses every timestamp text of a sensor file,
\* the timestamps of the parsed table are those texts read with the first
\* such format, all of them with that one format.
C22_OneFormatForColumn ==
    (csv_file # None /\ csv_file[1].parser = "parse_lux_csv" /\ FormatsParsingAll # {}) =>
        /\ ~parsed_df.raised
        /\ [i \in DOMAIN parsed_df.df |-> parsed_df.df[i].timestamp] =
              SortSeq([i \in DOMAIN csv_file[1].rows |->
                          ToDatetime(csv_file[1].rows[i].timestamp,
                                     TimestampFormats[SetMin(FormatsParsingAll)])[1]],
                      LAMBDA x, y : x < y)

\* the headers of a generation file that name a price
PriceHeaders == {"electricity unit price (qar/kwh)", "unit price"}

\* what C23 expects of one data row of the generation file being parsed
ExpectedInverterRow(row) ==
    [timestamp |-> At(row["generation date"], row["time period"].hour,
                      row["time period"].minute),
     actual_kwh |-> row["electricity generation (kwh)"],
     electricity_price |->
        IF \E p \in PriceHeaders : p \in DOMAIN row
        THEN row[CHOOSE p \in PriceHeaders : p \in DOMAIN row]
        ELSE Rat(22, 100)]

\* C23: in the table parsed from a generation file, every row has the
\* energy of the generation column, and as its price the value of the price
\* column when the file has a column named as a price, 0.22 when it has
\* none.
C23_PriceFromPriceColumn ==
    (csv_file # None /\ csv_file[1].parser = "parse_inverter_csv") =>
        Range(parsed_df.df) =
           {ExpectedInverterRow(csv_file[1].rows[i]) : i \in DOMAIN csv_file[1].rows}

\* C24: the daily_data of a successful report is the whole daily table of
\* the analyzer when that has at most 100 rows, and its last 30 rows when
\* it has more; either way the rows are in ascending order of date.
C24_DailyDataWindow ==
    RunReported =>
        LET df == analyzer[1].daily_performance[1]
            daily_data == response.body.daily_data
        IN  /\ Len(df) <= 100 => daily_data = df
            /\ Len(df) > 100 =>
                  /\ Len(daily_data) = 30
                  /\ \A i \in 1 .. 30 : daily_data[i] = df[Len(df) - 30 + i]
            /\ \A i, j \in DOMAIN daily_data :
                  i < j => daily_data[i].date < daily_data[j].date
            /\ \A i, j \in DOMAIN df : i < j => df[i].date < df[j].date

\* a report over a daily table of more than 100 rows
C24_Witness ==
    /\ RunReported
    /\ Len(analyzer[1].daily_performance[1]) > 100
    /\ Len(response.body.daily_data) = 30

\* C25: whatever the interleaving of the callers of ensure_tcp_started, at
\* most one tcp-server thread is ever started, _tcp_started is set only
\* once that thread is started, and a call that has returned finds the
\* flag set and the one thread started.
C25_StartedExactlyOnce ==
    /\ tcp_thread_starts <= 1
    /\ tcp_started => tcp_thread_starts = 1
    /\ \A c \in Callers :
          ensure_pc[c] = "returned" => tcp_started /\ tcp_thread_starts = 1

\* two callers found the flag unset at the first test; one has started the
\* thread and returned, the other holds the lock before the second test
C25_Witness ==
    \E c, d \in Callers :
        /\ c # d
        /\ ensure_pc[c] = "returned"
        /\ ensure_pc[d] = "recheck"
        /\ tcp_start_lock = Some(d)
        /\ tcp_thread_starts = 1

\* C26: on one analyzer instance a generate_report that returns success
\* follows a most recent load that succeeded, and its daily data are those
\* of that load's tables; after a load that failed no report succeeds.
C26_ReportOfLastLoad ==
    (report_result # None /\ report_result[1].success) =>
        /\ load_result # None
        /\ load_result[1].success
        /\ report_result[1].daily_data =
              generate_report(
                  load_from_dataframes(SolarCleaningAnalyzer(analyzer[1].config),
                                       load_result[1].lux_df,
                                       load_result[1].inverter_df,
                                       load_result[1].cleaning_dates).self).daily_data

\* C27: on one analyzer instance the cleaning events after a load that
\* succeeded are the dates supplied to that load, sorted: none when the
\* load was given none.
C27_EventsOfLastLoad ==
    (load_result # None /\ load_result[1].success) =>
        analyzer[1].cleaning_events = Sorted(load_result[1].cleaning_dates)

\* C28: the days since the baseline of every assessment are 0 or more,
\* whatever the daily table and the cleaning events, a latest cleaning
\* event dated after the last day of data included.
C28_DaysSinceNonNegative ==
    RunReported =>
        /\ analyze_degradation(analyzer[1]).days_since_baseline >= 0
        /\ response.body.degradation.days_since_baseline >= 0

\* the readings of a text, by its lines alone: the lines that are readings
ReadingsOf(text) ==
    SelectSeq(SplitLines(text, <<>>), LAMBDA line : line \in ReadingTexts)

\* the part of the stream that recv has returned
Received == SubSeq(connection[1].stream, 1, connection[1].sent)

\* C29: however recv cuts the stream into chunks, the readings ingested are
\* the readings whose last character has been received, each once and in
\* the order sent, none is counted as invalid, and once the connection is
\* closed they are all the readings of the stream.
C29_EveryReadingOnce ==
    connection # None =>
        /\ weather_data = ReadingsOf(Received)
        /\ messages_parsed = Len(weather_data)
        /\ invalid_messages = 0
        /\ ~connection[1].open => weather_data = ReadingsOf(connection[1].stream)

\* a reading has been ingested and the next one is cut by the end of a
\* chunk inside its string, after the brace the string holds
C29_Witness ==
    /\ connection # None
    /\ connection[1].open
    /\ Len(weather_data) = 1
    /\ tcp_buffer = <<"{", Quote, Backslash, Quote, "}">>

\* C30: when no database operation is running no connection of the pool is
\* checked out, whatever operations ran and failed before, and the pool of
\* maxconn connections is never exhausted.
C30_ConnectionsReturned ==
    /\ (\A t \in Threads : db_calls[t].pc = "idle") => pool_used = 0
    /\ pool_used < maxconn \/ \E t \in Threads : db_calls[t].pc # "idle"

====
